---- MODULE Spec2Model ----
(***************************************************************************)
(* A model of the phaseless AFQMC driver of OpenMS (openms/qmc/qmc.py):    *)
(* the time-stepping loop QMCbase.kernel, the estimator accumulator        *)
(* QMCbase.property_stack and the walker re-orthogonalization              *)
(* QMCbase.orthogonalization with qr_ortho.                                *)
(*                                                                         *)
(* Numbers.  All arithmetic is exact.  A scalar is a rational <<n, d>> in  *)
(* lowest terms with d > 0; a division by zero gives <<0, 0>> (nan) or     *)
(* <<+-1, 0>> (+-inf), as numpy does.  Only the real part of the complex   *)
(* values of the program is carried.  A walker's coefficient matrix has    *)
(* norb = 2 rows and one occupied column: the vector                       *)
(* (sg * a / d, b / d), where sg is the IEEE sign bit of the leading       *)
(* entry (so that -0.0 and +0.0 are told apart, as LAPACK's SIGN does).    *)
(* Column norms are products of powers of 2 and 5, and a logarithm is the  *)
(* pair <<e2, e5>> standing for e2 * ln 2 + e5 * ln 5.                     *)
(***************************************************************************)
EXTENDS Integers, Sequences, FiniteSets, TLC

----------------------------------------------------------------------------
(* Bounds of the model *)

MaxTime == 4

MaxWalkers == 2

MaxFreq == 2

MaxOrthoCalls == 3

MaxAgainTime == 2
\* the largest number of options with a default that a caller gives
MaxSupplied == 2
\* the largest number of fields of the two-body tensor
MaxFields == 2
\* the largest taylor_order a caller gives
MaxTaylor == 2
\* the largest entry of eta
MaxEta == 2
\* the largest mf.max_cycle
MaxCycle == 2

----------------------------------------------------------------------------
(* Exact arithmetic *)

Abs(x) == IF x < 0 THEN -x ELSE x

Sgn(x) == IF x < 0 THEN -1 ELSE IF x = 0 THEN 0 ELSE 1

GCD[x \in Nat, y \in Nat] == IF y = 0 THEN x ELSE GCD[y, x % y]

Rat[n \in Int, d \in Int] ==
    IF d = 0 THEN <<Sgn(n), 0>>
    ELSE LET g == GCD[Abs(n), Abs(d)]
         IN  <<(Sgn(d) * n) \div g, Abs(d) \div g>>

Zero == <<0, 1>>

One == <<1, 1>>

NaN == <<0, 0>>

IsFinite(r) == r[2] # 0

RAdd[p \in Int \X Int, q \in Int \X Int] ==
    IF IsFinite(p) /\ IsFinite(q) THEN Rat[p[1] * q[2] + q[1] * p[2], p[2] * q[2]]
    ELSE IF IsFinite(p) THEN q
    ELSE IF IsFinite(q) \/ p = q THEN p
    ELSE NaN

RMul[p \in Int \X Int, q \in Int \X Int] == Rat[p[1] * q[1], p[2] * q[2]]

RDiv[p \in Int \X Int, q \in Int \X Int] ==
    IF IsFinite(q) THEN Rat[p[1] * q[2], p[2] * q[1]]
    ELSE IF IsFinite(p) THEN Zero ELSE NaN

RECURSIVE Pow(_, _)
Pow(p, e) == IF e = 0 THEN 1 ELSE p * Pow(p, e - 1)

RECURSIVE Val(_, _)
Val(p, n) == IF n % p = 0 THEN 1 + Val(p, n \div p) ELSE 0

RECURSIVE RootFrom(_, _)
RootFrom(k, n) == IF k * k >= n THEN k ELSE RootFrom(k + 1, n)

\* the square root of a perfect square
ISqrt[n \in Nat] == RootFrom(0, n)

LogZero == <<0, 0>>

LAdd(l, m) == <<l[1] + m[1], l[2] + m[2]>>

LSub(l, m) == <<l[1] - m[1], l[2] - m[2]>>

\* backend.log of a positive rational whose prime factors are 2 and 5
Log[r \in Int \X Int] == <<Val(2, r[1]) - Val(2, r[2]), Val(5, r[1]) - Val(5, r[2])>>

\* backend.exp of a logarithm
Exp[l \in Int \X Int] ==
    Rat[Pow(2, IF l[1] > 0 THEN l[1] ELSE 0) * Pow(5, IF l[2] > 0 THEN l[2] ELSE 0),
        Pow(2, IF l[1] < 0 THEN -l[1] ELSE 0) * Pow(5, IF l[2] < 0 THEN -l[2] ELSE 0)]

----------------------------------------------------------------------------
(* Coefficient matrices: norb = 2, one column *)

Vec[sg \in {-1, 1}, a \in Nat, b \in Int, d \in Nat] ==
    LET g == GCD[GCD[a, Abs(b)], d]
    IN  [sg |-> sg, a |-> a \div g, b |-> b \div g, d |-> d \div g]

\* squared column norm times d^2
Norm2(v) == v.a * v.a + v.b * v.b

ColNorm(v) == Rat[ISqrt[Norm2(v)], v.d]

IsOrthonormal(v) == Norm2(v) = v.d * v.d

\* numpy.linalg.qr of a one-column matrix (LAPACK geqrf/larfg): with a zero
\* sub-column H = I, else R = -SIGN(norm, leading entry); Q = phiw / R
QRdiag(v) ==
    IF v.b = 0 THEN Rat[v.sg * v.a, v.d]
    ELSE Rat[-v.sg * ISqrt[Norm2(v)], v.d]

QRqUnscaled(v) == v

QRq(v) ==
    IF v.b = 0 THEN Vec[1, 1, 0, 1]
    ELSE Vec[-1, v.a, -v.sg * v.b, ISqrt[Norm2(v)]]

\* qr_ortho(phiw): (Qmat, log_det), log_det = sum(log(abs(diag(Rmat))))
qr_ortho(phiw) ==
    LET Rdiag == QRdiag(phiw)
    IN  [Qmat |-> QRq(phiw), log_det |-> Log[<<Abs(Rdiag[1]), Rdiag[2]>>]]

----------------------------------------------------------------------------
(* State *)

VARIABLES
    dt,                 \* self.dt, in ticks
    total_time,         \* self.total_time, in ticks
    nsteps,             \* self.nsteps
    renorm_freq,        \* self.renorm_freq
    property_calc_freq, \* self.property_calc_freq
    energy_scheme,      \* self.energy_scheme
    property_buffer,    \* self.property_buffer, indexed as stacked_variables
    eshift,             \* self.eshift
    walkers,            \* self.walkers
    pc,                 \* position of the control thread in kernel
    step,               \* loop variable of kernel
    time_list,          \* kernel's time_list
    energy_list,        \* kernel's energy_list
    calls,              \* history: the calls made so far, <<name, step>>
    eshift_arg,         \* history: eshift passed to the last propagate_walkers
    stacked,            \* history: the sums stacked in the current window
    last_reduction,     \* history: the last reduction of property_stack
    rng,                \* backend.random: the position in the stream of the seed
    builds,             \* history: the number of propagator.build calls made
    first_run,          \* history: the first kernel call, where a second one follows
    made,               \* what __init__ was given and the attributes it set beside
                        \* those above
    afqmc,              \* a call of AFQMC.propagation: its arguments, the attributes
                        \* it reads, and what it returns
    vtqedhf,            \* a call of RHF.gaussian_derivative_f_vector of vtqedhf: its
                        \* arguments, the attributes it reads, the log and what it
                        \* returns
    scqedhf,            \* a call into scqedhf: its arguments, its locals and the
                        \* attributes of mf it reads and writes
    universal,          \* a call of the module-level kernel(mc) on a twin of the
                        \* object: its locals, the attributes of the twin it
                        \* changes and the calls it makes
    gwalker,            \* gwalker.default_walker_options, the dict of the module
    qmcs                \* the QMC objects constructed so far in the session

vars ==
    <<dt, total_time, nsteps, renorm_freq, property_calc_freq, energy_scheme,
      property_buffer, eshift, walkers, pc, step, time_list, energy_list, calls, eshift_arg,
      stacked, last_reduction, rng, builds, first_run, made, afqmc, vtqedhf,
      scqedhf, universal, gwalker, qmcs>>

attributes ==
    <<dt, total_time, nsteps, renorm_freq, property_calc_freq, energy_scheme, afqmc, vtqedhf,
      scqedhf, universal, gwalker, qmcs>>

config == <<attributes, made>>

\* self.pop_control_freq
pop_control_freq == 5

stacked_variables ==
    <<"weights", "unscaled_weights", "walker_hybrid_energies", "walker_local_energies">>

Index == 1..Len(stacked_variables)

RECURSIVE IndexFrom(_, _)
IndexFrom(i, name) == IF stacked_variables[i] = name THEN i ELSE IndexFrom(i + 1, name)

\* self.stacked_variables.index(name)
IndexOf(name) == IndexFrom(1, name)

\* "energies" in name
HasEnergies(name) == name \in {"walker_hybrid_energies", "walker_local_energies"}

\* "weights" in name
HasWeights(name) == name \in {"weights", "unscaled_weights"}

WalkerIdsButLast(w) == 1..(w.nwalkers - 1)

WalkerIds(w) == 1..w.nwalkers

\* the sum of the first n entries of f
RECURSIVE SumTo(_, _)
SumTo(f, n) == IF n = 0 THEN Zero ELSE RAdd[SumTo(f, n - 1), f[n]]

\* backend.sum of a per-walker array
WalkerSum(w, f) == SumTo(f, w.nwalkers)

----------------------------------------------------------------------------
(* QMCbase.orthogonalization *)

OrthoWalkerKeepsMatrix(w, iw) ==
    LET qa == qr_ortho(w.phiwa[iw])
        qb == qr_ortho(w.phiwb[iw])
        log_det == IF w.ncomponents > 1 THEN LAdd(qa.log_det, qb.log_det)
                   ELSE qa.log_det
        detR == Exp[LSub(log_det, w.detR_shift[iw])]
    IN  [phiwa |-> w.phiwa[iw],
         phiwb |-> w.phiwb[iw],
         log_detR |-> LAdd(w.log_detR[iw], Log[detR]),
         detR |-> detR,
         ovlp |-> RDiv[w.ovlp[iw], detR]]

OrthoWalkerAlphaOnly(w, iw) ==
    LET qa == qr_ortho(w.phiwa[iw])
        qb == qr_ortho(w.phiwb[iw])
        detR == Exp[LSub(qa.log_det, w.detR_shift[iw])]
    IN  [phiwa |-> qa.Qmat,
         phiwb |-> IF w.ncomponents > 1 THEN qb.Qmat ELSE w.phiwb[iw],
         log_detR |-> LAdd(w.log_detR[iw], Log[detR]),
         detR |-> detR,
         ovlp |-> RDiv[w.ovlp[iw], detR]]

\* one iteration of the loop over iw
OrthoWalker(w, iw) ==
    LET qa == qr_ortho(w.phiwa[iw])
        qb == qr_ortho(w.phiwb[iw])
        log_det == IF w.ncomponents > 1 THEN LAdd(qa.log_det, qb.log_det)
                   ELSE qa.log_det
        detR == Exp[LSub(log_det, w.detR_shift[iw])]
    IN  [phiwa |-> qa.Qmat,
         phiwb |-> IF w.ncomponents > 1 THEN qb.Qmat ELSE w.phiwb[iw],
         log_detR |-> LAdd(w.log_detR[iw], Log[detR]),
         detR |-> detR,
         ovlp |-> RDiv[w.ovlp[iw], detR]]

\* boson_phiw / norms[:, None]
BosonNormalize(v) == Vec[v.sg, v.a, v.b, ISqrt[Norm2(v)]]

orthogonalization(w) ==
    LET o == [iw \in WalkerIds(w) |-> OrthoWalker(w, iw)]
    IN  [w EXCEPT
           !.phiwa = [iw \in WalkerIds(w) |-> o[iw].phiwa],
           !.phiwb = [iw \in WalkerIds(w) |-> o[iw].phiwb],
           !.log_detR = [iw \in WalkerIds(w) |-> o[iw].log_detR],
           !.detR = [iw \in WalkerIds(w) |-> o[iw].detR],
           !.ovlp = [iw \in WalkerIds(w) |-> o[iw].ovlp],
           !.boson_phiw = IF w.has_boson
                          THEN [iw \in WalkerIds(w) |-> BosonNormalize(w.boson_phiw[iw])]
                          ELSE w.boson_phiw]

----------------------------------------------------------------------------
(* QMCbase.property_stack *)

ReductionAtWindowStart(s, freq) == s % freq = 0

\* whether the reduction is due at this step
ReductionDue(s, freq) == (s + 1) % freq = 0

\* _data_dict, as the list tmp
EnsembleSums(w) ==
    [i \in Index |->
        CASE stacked_variables[i] = "weights" -> WalkerSum(w, w.weights)
          [] stacked_variables[i] = "unscaled_weights" -> WalkerSum(w, w.weights_org)
          [] stacked_variables[i] = "walker_hybrid_energies" ->
                WalkerSum(w, [iw \in WalkerIds(w) |-> RMul[w.ehybrid[iw], w.weights[iw]]])
          [] stacked_variables[i] = "walker_local_energies" ->
                WalkerSum(w, [iw \in WalkerIds(w) |-> RMul[w.eloc[iw], w.weights[iw]]])]

BufferZero == [i \in Index |-> Zero]

BufferAdd(b, c) == [i \in Index |-> RAdd[b[i], c[i]]]

\* the first loop of the reduction: energies divided by norm
NormalizeEnergies(b) ==
    LET norm == b[IndexOf("weights")]
    IN  [i \in Index |-> IF HasEnergies(stacked_variables[i]) THEN RDiv[b[i], norm] ELSE b[i]]

\* the second loop of the reduction: weights divided by the window length
NormalizeWeights(b, freq) ==
    [i \in Index |-> IF HasWeights(stacked_variables[i]) THEN RDiv[b[i], <<freq, 1>>] ELSE b[i]]

ReduceWeightsFirst(b, freq) == NormalizeEnergies(NormalizeWeights(b, freq))

\* the buffer as the reduction leaves it before it is emptied
Reduce(b, freq) == NormalizeWeights(NormalizeEnergies(b), freq)

property_stack_running_shift(buf, es, w, s, freq) ==
    IF s < 0 THEN [property_buffer |-> buf, eshift |-> es, accumulated |-> buf, reduced |-> FALSE]
    ELSE LET acc == BufferAdd(buf, EnsembleSums(w))
         IN  IF ReductionDue(s, freq)
             THEN [property_buffer |-> BufferZero,
                   eshift |-> Reduce(acc, freq)[IndexOf("walker_hybrid_energies")],
                   accumulated |-> acc, reduced |-> TRUE]
             ELSE [property_buffer |-> acc,
                   eshift |-> Reduce(acc, freq)[IndexOf("walker_hybrid_energies")],
                   accumulated |-> acc, reduced |-> FALSE]

\* property_stack(walkers, step): the new buffer and eshift; accumulated is the
\* buffer after the += of the sums
property_stack(buf, es, w, s, freq) ==
    IF s < 0 THEN [property_buffer |-> buf, eshift |-> es, accumulated |-> buf, reduced |-> FALSE]
    ELSE LET acc == BufferAdd(buf, EnsembleSums(w))
         IN  IF ReductionDue(s, freq)
             THEN [property_buffer |-> BufferZero,
                   eshift |-> Reduce(acc, freq)[IndexOf("walker_hybrid_energies")],
                   accumulated |-> acc, reduced |-> TRUE]
             ELSE [property_buffer |-> acc, eshift |-> es, accumulated |-> acc,
                   reduced |-> FALSE]

----------------------------------------------------------------------------
(* Collaborators of the driver loop: the trial state, the propagator and the
   population controller *)

DtSet == {1, 2}

EnergySchemes == {"hybrid", "local"}

\* trial.psi: a normalised reference determinant
TrialSet == {Vec[1, 3, 4, 5], Vec[-1, 0, 1, 1]}

\* trial.ovlp_with_walkers_gf for one walker
TrialOvlp(psi, phi) ==
    Rat[psi.sg * psi.a * phi.sg * phi.a + psi.b * phi.b, psi.d * phi.d]

\* gwalker.make_walkers(trial, walker_options): nwalkers copies of the trial
\* state with unit weight
make_walkers(psi, n, ncomp, boson) ==
    [nwalkers |-> n,
     ncomponents |-> ncomp,
     has_boson |-> boson,
     phiwa |-> [iw \in 1..n |-> psi],
     phiwb |-> [iw \in 1..n |-> IF ncomp > 1 THEN psi ELSE Vec[1, 1, 0, 1]],
     boson_phiw |-> [iw \in 1..n |-> Vec[1, 1, 0, 1]],
     ovlp |-> [iw \in 1..n |-> TrialOvlp(psi, psi)],
     log_detR |-> [iw \in 1..n |-> LogZero],
     detR |-> [iw \in 1..n |-> One],
     detR_shift |-> [iw \in 1..n |-> LogZero],
     weights |-> [iw \in 1..n |-> One],
     weights_org |-> [iw \in 1..n |-> One],
     ehybrid |-> [iw \in 1..n |-> Zero],
     eloc |-> [iw \in 1..n |-> Zero]]

\* what one propagation step can do to one walker: the factor on its weight
\* (0 is walker death), its new energies, coefficient matrices and overlap
PropSamples ==
    <<[wfac |-> 1, ehybrid |-> 1, eloc |-> 2, phiwa |-> Vec[1, 3, 4, 1],
       phiwb |-> Vec[-1, 4, 3, 1], boson_phiw |-> Vec[1, 3, 4, 1], ovlp |-> <<5, 1>>],
      [wfac |-> 0, ehybrid |-> 3, eloc |-> 3, phiwa |-> Vec[1, 0, -5, 1],
       phiwb |-> Vec[1, 5, 0, 1], boson_phiw |-> Vec[1, 0, 5, 1], ovlp |-> <<-5, 1>>],
      [wfac |-> 2, ehybrid |-> 3, eloc |-> 1, phiwa |-> Vec[-1, 4, -3, 1],
       phiwb |-> Vec[1, 3, -4, 1], boson_phiw |-> Vec[-1, 4, 3, 1], ovlp |-> <<10, 1>>]>>

\* the batches of auxiliary-field draws one step can consume
FieldDraws == 1..Len(PropSamples)

\* what the batch k of draws does to the walkers: walker iw gets the sample
\* k + iw, cyclically
Outcome(w, k) ==
    [iw \in WalkerIds(w) |-> PropSamples[((k + iw) % Len(PropSamples)) + 1]]

\* propagator.propagate_walkers(trial, walkers, vbias, ltensor, eshift): mutates
\* the walkers in place; x[iw] is what the step does to walker iw
propagate_walkers(w, x) ==
    [w EXCEPT
       !.weights = [iw \in WalkerIds(w) |-> RMul[w.weights[iw], <<x[iw].wfac, 1>>]],
       !.ehybrid = [iw \in WalkerIds(w) |-> <<x[iw].ehybrid, 1>>],
       !.eloc = [iw \in WalkerIds(w) |-> <<x[iw].eloc, 1>>],
       !.phiwa = [iw \in WalkerIds(w) |-> x[iw].phiwa],
       !.phiwb = [iw \in WalkerIds(w) |-> IF w.ncomponents > 1 THEN x[iw].phiwb ELSE w.phiwb[iw]],
       !.boson_phiw = [iw \in WalkerIds(w) |-> IF w.has_boson THEN x[iw].boson_phiw
                                               ELSE w.boson_phiw[iw]],
       !.ovlp = [iw \in WalkerIds(w) |-> x[iw].ovlp]]

RECURSIVE MinFrom(_, _)
MinFrom(i, S) == IF i \in S THEN i ELSE MinFrom(i + 1, S)

Min(S) == MinFrom(1, S)

\* walkers.weight_control(step): keeps the unscaled weights, and branches: the
\* first walker of weight 2 or more is split into the slot of the first dead
\* walker, each copy with half the weight
weight_control(w, s) ==
    LET heavy == {iw \in WalkerIds(w) : w.weights[iw][1] >= 2 * w.weights[iw][2]}
        dead == {iw \in WalkerIds(w) : w.weights[iw][1] = 0}
        kept == [w EXCEPT !.weights_org = w.weights]
    IN  IF heavy = {} \/ dead = {} THEN kept
        ELSE LET i == Min(heavy)
                 j == Min(dead)
                 half == RDiv[w.weights[i], <<2, 1>>]
             IN  [kept EXCEPT
                    !.weights = [w.weights EXCEPT ![i] = half, ![j] = half],
                    !.ehybrid[j] = w.ehybrid[i],
                    !.eloc[j] = w.eloc[i],
                    !.phiwa[j] = w.phiwa[i],
                    !.phiwb[j] = w.phiwb[i],
                    !.boson_phiw[j] = w.boson_phiw[i],
                    !.ovlp[j] = w.ovlp[i],
                    !.log_detR[j] = w.log_detR[i],
                    !.detR[j] = w.detR[i]]

\* propagator.local_energy(h1e, ltensor, walkers, trial, enuc): energies[0] is
\* the weighted energy of the walkers as they are, energies[1] their weight
local_energy(w) ==
    <<WalkerSum(w, [iw \in WalkerIds(w) |-> RMul[w.eloc[iw], w.weights[iw]]]),
      WalkerSum(w, w.weights)>>

----------------------------------------------------------------------------
(* QMCbase.__init__ and QMCbase.kernel *)

\* self.nsteps = int(total_time / dt)
NStepsOf(tt, d) == tt \div d

RenormAtWindowStart(s, freq) == s % freq = 0

RenormAtTwiceThePeriod(s, freq) == (s + 1) % (2 * freq) = 0

\* (step + 1) % self.renorm_freq == 0
RenormDue(s, freq) == (s + 1) % freq = 0

LoopUntilFirstEnergy(s, n) == s < n /\ energy_list = <<>>

\* for step in range(self.nsteps)
LoopContinues(s, n) == s < n

StageAfterAccumulateFirst(stage) ==
    CASE stage = "propagate" -> "property_stack"
      [] stage = "property_stack" -> "weight_control"
      [] stage = "weight_control" -> "measure"
      [] stage = "measure" -> "loop"

\* the order of the calls in the body of the loop
StageAfter(stage) ==
    CASE stage = "propagate" -> "weight_control"
      [] stage = "weight_control" -> "property_stack"
      [] stage = "property_stack" -> "measure"
      [] stage = "measure" -> "loop"

SeededNowhere(r) == r

\* backend.random.seed(self.random_seed): the generator is put at the start
\* of the stream of the seed
Seeded(r) == 0

\* the batches the generator can give next: the stream of a seed is fixed,
\* so a position the first call has read gives what it gave then
NextDraws(r, run) ==
    IF run.returned /\ r < Len(run.draws) THEN {run.draws[r + 1]} ELSE FieldDraws

\* the first call notes the batches it is given
Noted(run, k) ==
    IF run.watching /\ ~run.returned THEN [run EXCEPT !.draws = Append(@, k)] ELSE run

\* nothing has returned yet; walkers0 are the walkers as build() made them
NoRun(watching, w) ==
    [watching |-> watching, returned |-> FALSE, twin |-> FALSE, draws |-> <<>>,
     walkers0 |-> IF watching THEN w ELSE <<>>, time_list |-> <<>>, energy_list |-> <<>>]

Called(name, s) == calls' = Append(calls, <<name, s>>)

History == <<eshift_arg, stacked, last_reduction>>

\* the options of __init__ that have a default: renorm_freq, random_seed and
\* taylor_order are named parameters, the others are read from **kwargs
OptionNames ==
    {"renorm_freq", "random_seed", "taylor_order", "nsteps", "pop_control_freq",
     "property_calc_freq", "chol_thresh"}

\* the value the caller gave for the option, or the default
Supplied(call, name, default) ==
    IF name \in DOMAIN call.options THEN call.options[name] ELSE default

\* the attributes __init__ sets from its arguments, in the order of its
\* assignments: self.__dict__.update(kwargs) comes after nsteps is computed
\* and before pop_control_freq is set. chol_thresh is in units of the
\* smallest singular value that is not zero, so its default 1.0e-6 is 0
Attributes(call) ==
    [dt |-> call.dt,
     total_time |-> call.total_time,
     nsteps |-> Supplied(call, "nsteps", NStepsOf(call.total_time, call.dt)),
     energy_scheme |-> call.energy_scheme,
     chol_thresh |-> Supplied(call, "chol_thresh", 0),
     taylor_order |-> Supplied(call, "taylor_order", 6),
     random_seed |-> Supplied(call, "random_seed", 1),
     renorm_freq |-> Supplied(call, "renorm_freq", 5),
     pop_control_freq |-> pop_control_freq,
     nwalkers |-> call.num_walkers,
     property_calc_freq |-> Supplied(call, "property_calc_freq", 10)]

\* get_integrals: eri is given by its singular values s, in the order of
\* scipy.linalg.svd; mask = s > self.chol_thresh, and the field of a kept
\* singular value is u * sqrt(s), given here by s
get_integrals(eri, thresh) == SelectSeq(eri, LAMBDA sv : sv > thresh)

\* propagator.build(h1e, ltensor, trial, geb) raises where the decomposition
\* it is given has no field
BuildRaises(ltensor) == ltensor = <<>>

\* what the object keeps of its construction
Made(call, eri, psi) ==
    [call |-> call,
     eri |-> eri,
     h1e |-> <<<<0, -1>>, <<-1, 0>>>>,
     nuc_energy |-> 0,
     trial |-> psi,
     ltensor |-> get_integrals(eri, Attributes(call).chol_thresh),
     chol_thresh |-> Attributes(call).chol_thresh,
     taylor_order |-> Attributes(call).taylor_order,
     random_seed |-> Attributes(call).random_seed,
     pop_control_freq |-> Attributes(call).pop_control_freq,
     nwalkers |-> Attributes(call).nwalkers]

\* a two-body tensor of one field
OneField == <<1>>

\* the call that gives the attributes of the state
CallOf(d, tt, n, es, rf, pf) ==
    [dt |-> d, total_time |-> tt, num_walkers |-> n, energy_scheme |-> es,
     options |-> [name \in {"renorm_freq", "property_calc_freq"} |->
                     IF name = "renorm_freq" THEN rf ELSE pf]]

\* AFQMC.propagation, gaussian_derivative_f_vector, or scqedhf, is not called
NotCalled == [stage |-> "idle"]

\* the trial state of a run that is not watched
NotKept == <<>>

\* the dict default_walker_options as the module generic_walkers defines it
default_walker_options == [nwalkers |-> 100]

\* the session has constructed no object yet
NoSession == gwalker = default_walker_options /\ qmcs = <<>>

\* the object after QMCbase.__init__; the trial state is kept apart from the
\* walkers where the run is watched
Constructed(watching, maxtime) ==
    /\ dt \in DtSet
    /\ total_time \in 0..maxtime
    /\ nsteps = NStepsOf(total_time, dt)
    /\ renorm_freq \in 1..MaxFreq
    /\ property_calc_freq \in 1..MaxFreq
    /\ energy_scheme \in EnergySchemes
    /\ property_buffer = BufferZero
    /\ eshift = Zero
    /\ \E psi \in TrialSet, n \in 1..MaxWalkers :
          walkers = make_walkers(psi, n, 1, FALSE)
    /\ pc = "enter"
    /\ step = 0
    /\ time_list = <<>>
    /\ energy_list = <<>>
    /\ calls = <<>>
    /\ eshift_arg = Zero
    /\ stacked = <<>>
    /\ last_reduction = [step |-> -1, eshift |-> Zero, accumulated |-> BufferZero]
    /\ rng = 0
    /\ builds = 1
    /\ first_run = NoRun(watching, walkers)
    /\ made = Made(CallOf(dt, total_time, walkers.nwalkers, energy_scheme, renorm_freq,
                          property_calc_freq), OneField,
                   IF watching THEN walkers.phiwa[1] ELSE NotKept)
    /\ afqmc = NotCalled
    /\ vtqedhf = NotCalled
    /\ scqedhf = NotCalled
    /\ NoSession

Init == Constructed(FALSE, MaxTime) /\ universal = NotCalled

AsPassedWithoutFields(m) == [m EXCEPT !.ltensor = <<>>]

\* h1e, ltensor, trial and enuc as the propagator leaves them: it is passed
\* the arrays of the object and reads them
AsPassed(m) == m

\* backend.random.seed(self.random_seed) and
\* propagator.build(h1e, ltensor, trial, self.geb)
PropagatorBuild ==
    /\ pc = "enter"
    /\ rng' = Seeded(rng)
    /\ builds' = builds + 1
    /\ pc' = "initial_ortho"
    /\ Called("build", -1)
    /\ made' = AsPassed(made)
    /\ UNCHANGED <<attributes, first_run, property_buffer, eshift, walkers, step, time_list,
                   energy_list, History>>

\* self.orthogonalization() before the loop
InitialOrthogonalization ==
    /\ pc = "initial_ortho"
    /\ walkers' = orthogonalization(walkers)
    /\ pc' = "initial_stack"
    /\ Called("orthogonalization", -1)
    /\ UNCHANGED <<config, first_run, rng, builds, property_buffer, eshift, step,
                   time_list, energy_list, History>>

\* self.property_stack(walkers, -1) and the set-up of the loop
InitialPropertyStack ==
    /\ pc = "initial_stack"
    /\ property_buffer' =
          property_stack(property_buffer, eshift, walkers, -1, property_calc_freq).property_buffer
    /\ eshift' = property_stack(property_buffer, eshift, walkers, -1, property_calc_freq).eshift
    /\ time_list' = <<>>
    /\ energy_list' = <<>>
    /\ step' = 0
    /\ pc' = "loop"
    /\ Called("property_stack", -1)
    /\ UNCHANGED <<config, first_run, rng, builds, walkers, History>>

\* the head of an iteration, with the periodic re-orthogonalization when due
LoopOrthogonalization ==
    /\ pc = "loop"
    /\ LoopContinues(step, nsteps)
    /\ RenormDue(step, renorm_freq)
    /\ walkers' = orthogonalization(walkers)
    /\ pc' = "propagate"
    /\ Called("orthogonalization", step)
    /\ UNCHANGED <<config, first_run, rng, builds, property_buffer, eshift, step,
                   time_list, energy_list, History>>

\* the head of an iteration in which no re-orthogonalization is due
LoopSkipOrthogonalization ==
    /\ pc = "loop"
    /\ LoopContinues(step, nsteps)
    /\ ~RenormDue(step, renorm_freq)
    /\ pc' = "propagate"
    /\ UNCHANGED <<config, first_run, rng, builds, property_buffer, eshift, walkers, step,
                   time_list, energy_list, calls, History>>

\* propagator.propagate_walkers(trial, walkers, vbias, ltensor, eshift=self.eshift)
Propagate ==
    /\ pc = "propagate"
    /\ \E k \in NextDraws(rng, first_run) :
          /\ walkers' = propagate_walkers(walkers, Outcome(walkers, k))
          /\ first_run' = Noted(first_run, k)
    /\ rng' = rng + 1
    /\ eshift_arg' = eshift
    /\ pc' = StageAfter("propagate")
    /\ Called("propagate_walkers", step)
    /\ made' = AsPassed(made)
    /\ UNCHANGED <<attributes, builds, property_buffer, eshift, step, time_list,
                   energy_list, stacked, last_reduction>>

\* self.walkers.weight_control(step)
WeightControl ==
    /\ pc = "weight_control"
    /\ walkers' = weight_control(walkers, step)
    /\ pc' = StageAfter("weight_control")
    /\ Called("weight_control", step)
    /\ UNCHANGED <<config, first_run, rng, builds, property_buffer, eshift, step,
                   time_list, energy_list, History>>

\* the record property_stack(walkers, step) gives in the current state
Stacked == property_stack(property_buffer, eshift, walkers, step, property_calc_freq)

\* self.property_stack(walkers, step)
PropertyStack ==
    /\ pc = "property_stack"
    /\ property_buffer' = Stacked.property_buffer
    /\ eshift' = Stacked.eshift
    /\ stacked' = IF step % property_calc_freq = 0 THEN <<EnsembleSums(walkers)>>
                  ELSE Append(stacked, EnsembleSums(walkers))
    /\ last_reduction' =
          IF Stacked.reduced
          THEN [step |-> step, eshift |-> Stacked.eshift, accumulated |-> Stacked.accumulated]
          ELSE last_reduction
    /\ pc' = StageAfter("property_stack")
    /\ Called("property_stack", step)
    /\ UNCHANGED <<config, first_run, rng, builds, walkers, step, time_list, energy_list,
                   eshift_arg>>

MeasureAtWindowStart(s, freq) == s % freq = 0

\* (step + 1) % self.property_calc_freq == 0
MeasureDue(s, freq) == (s + 1) % freq = 0

\* energy = energies[0] / energies[1]
MeasuredEnergy(energies) == RDiv[energies[1], energies[2]]

\* the measurement at the end of the iteration: on a property_calc_freq
\* boundary the energy is computed and appended with the time tt = dt * step
Measure ==
    /\ pc = "measure"
    /\ time_list' = IF MeasureDue(step, property_calc_freq)
                    THEN Append(time_list, dt * step) ELSE time_list
    /\ energy_list' = IF MeasureDue(step, property_calc_freq)
                      THEN Append(energy_list, MeasuredEnergy(local_energy(walkers)))
                      ELSE energy_list
    /\ step' = step + 1
    /\ pc' = StageAfter("measure")
    /\ made' = IF MeasureDue(step, property_calc_freq) THEN AsPassed(made) ELSE made
    /\ UNCHANGED <<attributes, first_run, rng, builds, property_buffer, eshift, walkers,
                   calls, History>>

\* the loop is exhausted: self.post_kernel() and return
PostKernel ==
    /\ pc = "loop"
    /\ ~LoopContinues(step, nsteps)
    /\ pc' = "done"
    /\ Called("post_kernel", step)
    /\ UNCHANGED <<config, first_run, rng, builds, property_buffer, eshift, walkers, step,
                   time_list, energy_list, History>>

Next ==
    \/ PropagatorBuild
    \/ InitialOrthogonalization
    \/ InitialPropertyStack
    \/ LoopOrthogonalization
    \/ LoopSkipOrthogonalization
    \/ Propagate
    \/ WeightControl
    \/ PropertyStack
    \/ Measure
    \/ PostKernel

Spec == Init /\ [][Next]_vars

----------------------------------------------------------------------------
(* orthogonalization() on its own: any walker states, called repeatedly *)

\* states of one walker: generic columns, columns with a zero leading entry of
\* either sign bit, columns with a zero sub-column, norms above and below one,
\* columns that are already orthonormal, dead and live weights
WalkerStates ==
    {[phiwa |-> Vec[1, 3, 4, 1], phiwb |-> Vec[-1, 4, 3, 2], boson_phiw |-> Vec[1, 3, 4, 1],
      ovlp |-> <<5, 1>>, log_detR |-> LogZero, weight |-> One],
     [phiwa |-> Vec[-1, 4, -3, 2], phiwb |-> Vec[1, 0, 2, 1], boson_phiw |-> Vec[1, 0, 2, 1],
      ovlp |-> <<-5, 2>>, log_detR |-> <<1, -1>>, weight |-> Zero],
     [phiwa |-> Vec[1, 0, 5, 1], phiwb |-> Vec[-1, 0, 1, 2], boson_phiw |-> Vec[1, 1, 0, 1],
      ovlp |-> <<1, 1>>, log_detR |-> <<0, 2>>, weight |-> <<2, 1>>],
     [phiwa |-> Vec[-1, 0, -1, 1], phiwb |-> Vec[1, 2, 0, 1], boson_phiw |-> Vec[-1, 4, 3, 1],
      ovlp |-> <<3, 1>>, log_detR |-> LogZero, weight |-> One],
     [phiwa |-> Vec[-1, 2, 0, 1], phiwb |-> Vec[1, 3, -4, 5], boson_phiw |-> Vec[1, 0, 5, 1],
      ovlp |-> <<0, 1>>, log_detR |-> <<-1, 0>>, weight |-> Zero],
     [phiwa |-> Vec[1, 3, 4, 5], phiwb |-> Vec[-1, 1, 0, 2], boson_phiw |-> Vec[1, 3, 4, 5],
      ovlp |-> <<1, 2>>, log_detR |-> LogZero, weight |-> <<1, 2>>]}

WalkersOf(x, n, ncomp, boson) ==
    [make_walkers(Vec[1, 1, 0, 1], n, ncomp, boson) EXCEPT
       !.phiwa = [iw \in 1..n |-> x[iw].phiwa],
       !.phiwb = [iw \in 1..n |-> IF ncomp > 1 THEN x[iw].phiwb ELSE Vec[1, 1, 0, 1]],
       !.boson_phiw = [iw \in 1..n |-> IF boson THEN x[iw].boson_phiw ELSE Vec[1, 1, 0, 1]],
       !.ovlp = [iw \in 1..n |-> x[iw].ovlp],
       !.log_detR = [iw \in 1..n |-> x[iw].log_detR],
       !.weights = [iw \in 1..n |-> x[iw].weight]]

InitOrtho ==
    /\ dt = 1
    /\ total_time = 0
    /\ nsteps = NStepsOf(total_time, dt)
    /\ renorm_freq = 1
    /\ property_calc_freq = 1
    /\ energy_scheme = "hybrid"
    /\ property_buffer = BufferZero
    /\ eshift = Zero
    /\ \E n \in 1..MaxWalkers, ncomp \in {1, 2}, boson \in BOOLEAN :
         \E x \in [1..n -> WalkerStates] :
            walkers = WalkersOf(x, n, ncomp, boson)
    /\ pc = "orthogonalization"
    /\ step = 0
    /\ time_list = <<>>
    /\ energy_list = <<>>
    /\ calls = <<>>
    /\ eshift_arg = Zero
    /\ stacked = <<>>
    /\ last_reduction = [step |-> -1, eshift |-> Zero, accumulated |-> BufferZero]
    /\ rng = 0
    /\ builds = 1
    /\ first_run = NoRun(FALSE, walkers)
    /\ made = Made(CallOf(dt, total_time, walkers.nwalkers, energy_scheme, renorm_freq,
                          property_calc_freq), OneField, walkers.phiwa[1])
    /\ afqmc = NotCalled
    /\ vtqedhf = NotCalled
    /\ scqedhf = NotCalled
    /\ universal = NotCalled
    /\ NoSession

\* one call of self.orthogonalization()
OrthogonalizationCall ==
    /\ pc = "orthogonalization"
    /\ Len(calls) < MaxOrthoCalls
    /\ walkers' = orthogonalization(walkers)
    /\ Called("orthogonalization", -1)
    /\ UNCHANGED <<config, first_run, rng, builds, property_buffer, eshift, pc, step,
                   time_list, energy_list, History>>

NextOrtho == OrthogonalizationCall

SpecOrtho == InitOrtho /\ [][NextOrtho]_vars

FairSpec == Spec /\ WF_vars(Next)

----------------------------------------------------------------------------
(* QMCbase.__init__ as a step: the calls a caller can make *)

\* the values a caller gives for an option, and the singular values of a
\* two-body tensor
OptionValues == {1, 2}

\* the values given for dt, total_time, num_walkers and energy_scheme, and for
\* at most MaxSupplied of the options that have a default
Calls ==
    {[dt |-> d, total_time |-> tt, num_walkers |-> n, energy_scheme |-> es, options |-> o] :
        d \in DtSet, tt \in OptionValues, n \in OptionValues, es \in EnergySchemes,
        o \in UNION {[D -> OptionValues] :
                        D \in {X \in SUBSET OptionNames : Cardinality(X) <= MaxSupplied}}}

\* the singular values of a two-body tensor, largest first
EriSet ==
    {e \in UNION {[1..n -> OptionValues] : n \in 1..MaxFields} :
        \A i \in 1..(Len(e) - 1) : e[i] >= e[i + 1]}

\* no object yet
NoObject ==
    /\ dt = 0
    /\ total_time = 0
    /\ nsteps = 0
    /\ renorm_freq = 0
    /\ property_calc_freq = 0
    /\ energy_scheme = "none"
    /\ property_buffer = BufferZero
    /\ eshift = Zero
    /\ walkers = <<>>
    /\ pc = "new"
    /\ step = 0
    /\ time_list = <<>>
    /\ energy_list = <<>>
    /\ calls = <<>>
    /\ eshift_arg = Zero
    /\ stacked = <<>>
    /\ last_reduction = [step |-> -1, eshift |-> Zero, accumulated |-> BufferZero]
    /\ rng = 0
    /\ builds = 0
    /\ first_run = NoRun(FALSE, <<>>)
    /\ made = <<>>
    /\ universal = NotCalled
    /\ NoSession

InitConstruct == NoObject /\ afqmc = NotCalled /\ vtqedhf = NotCalled /\ scqedhf = NotCalled

\* QMCbase.__init__, with build() at its end: get_integrals, make_walkers and
\* propagator.build
Construct ==
    /\ pc = "new"
    /\ \E call \in Calls, eri \in EriSet, psi \in TrialSet :
          /\ made' = Made(call, eri, psi)
          /\ dt' = Attributes(call).dt
          /\ total_time' = Attributes(call).total_time
          /\ nsteps' = Attributes(call).nsteps
          /\ renorm_freq' = Attributes(call).renorm_freq
          /\ property_calc_freq' = Attributes(call).property_calc_freq
          /\ energy_scheme' = Attributes(call).energy_scheme
          /\ walkers' = make_walkers(psi, Attributes(call).nwalkers, 1, FALSE)
          /\ first_run' = NoRun(FALSE, walkers')
    /\ builds' = 1
    /\ pc' = IF BuildRaises(made'.ltensor) THEN "raised" ELSE "enter"
    /\ UNCHANGED <<afqmc, vtqedhf, scqedhf, universal, gwalker, qmcs, property_buffer, eshift,
                   step, time_list, energy_list, calls, rng, History>>

NextConstruct == Construct \/ Next

SpecConstruct == InitConstruct /\ [][NextConstruct]_vars

----------------------------------------------------------------------------
(* AFQMC.propagation: norb = 2, one occupied orbital, a batch of two walkers *)

\* a complex number (re + i im) / den, in lowest terms
Cx[re \in Int, im \in Int, den \in Int] ==
    LET g == GCD[GCD[Abs(re), Abs(im)], den]
    IN  <<re \div g, im \div g, den \div g>>

CInt(n) == <<n, 0, 1>>

CI == <<0, 1, 1>>

CAdd[a \in Int \X Int \X Int, b \in Int \X Int \X Int] ==
    Cx[a[1] * b[3] + b[1] * a[3], a[2] * b[3] + b[2] * a[3], a[3] * b[3]]

CSub[a \in Int \X Int \X Int, b \in Int \X Int \X Int] ==
    Cx[a[1] * b[3] - b[1] * a[3], a[2] * b[3] - b[2] * a[3], a[3] * b[3]]

CMul[a \in Int \X Int \X Int, b \in Int \X Int \X Int] ==
    Cx[a[1] * b[1] - a[2] * b[2], a[1] * b[2] + a[2] * b[1], a[3] * b[3]]

\* a / n for a positive integer n
CDiv[a \in Int \X Int \X Int, n \in Nat] == Cx[a[1], a[2], a[3] * n]

\* the sum of f[1] .. f[n]
RECURSIVE CSum(_, _)
CSum(f, n) == IF n = 0 THEN CInt(0) ELSE CAdd[CSum(f, n - 1), f[n]]

\* numpy.einsum('pq, qr->pr', m, v) for one walker
MatVec(m, v) ==
    <<CAdd[CMul[m[1][1], v[1]], CMul[m[1][2], v[2]]],
      CAdd[CMul[m[2][1], v[1]], CMul[m[2][2], v[2]]]>>

VAdd(v, w) == <<CAdd[v[1], w[1]], CAdd[v[2], w[2]]>>

VDiv(v, n) == <<CDiv[v[1], n], CDiv[v[2], n]>>

\* propagation_onebody: numpy.einsum('pq, zqr->zpr', self.exp_h1e, phi_w)
propagation_onebody(exp_h1e, phiw) == [z \in DOMAIN phiw |-> MatVec(exp_h1e, phiw[z])]

\* xshift = xi - xbar
XShift(xi, xbar) == [z \in DOMAIN xi |-> [n \in DOMAIN xi[z] |-> CSub[CInt(xi[z][n]), xbar[z][n]]]]

\* two_body_op_power = 1j * sqrt(dt) * einsum('zn, npq->zpq', xshift, ltensor), for walker z
TwoBodyOpEntry(d, xshift, ltensor, z, p, q) ==
    CMul[CI, CMul[CInt(ISqrt[d]),
                  CSum([n \in DOMAIN ltensor |-> CMul[xshift[z][n], CInt(ltensor[n][p][q])]],
                       Len(ltensor))]]

TwoBodyOpPower(d, xshift, ltensor, z) ==
    <<<<TwoBodyOpEntry(d, xshift, ltensor, z, 1, 1), TwoBodyOpEntry(d, xshift, ltensor, z, 1, 2)>>,
      <<TwoBodyOpEntry(d, xshift, ltensor, z, 2, 1), TwoBodyOpEntry(d, xshift, ltensor, z, 2, 2)>>>>

TaylorTermUndivided(a, temp, order_i) == MatVec(a, temp)

\* temp = einsum('zpq, zqr->zpr', two_body_op_power, temp) / (order_i + 1.0)
TaylorTerm(a, temp, order_i) == VDiv(MatVec(a, temp), order_i + 1)

\* for order_i in range(self.taylor_order): temp = ...; walkers.phiw += temp
RECURSIVE TaylorLoop(_, _, _, _, _)
TaylorLoop(a, temp, phi, order_i, order) ==
    IF order_i >= order THEN phi
    ELSE TaylorLoop(a, TaylorTerm(a, temp, order_i), VAdd(phi, TaylorTerm(a, temp, order_i)),
                    order_i + 1, order)

\* the two-body part of propagation: temp = walkers.phiw.copy(), then the loop
propagation_twobody(o, xi, phiw) ==
    [z \in DOMAIN phiw |->
        TaylorLoop(TwoBodyOpPower(o.dt, XShift(xi, o.xbar), o.ltensor, z), phiw[z], phiw[z], 0,
                   o.taylor_order)]

\* cfb = einsum("zn, zn->z", xi, xbar) - 0.5 * einsum("zn, zn->z", xbar, xbar)
Cfb(o, xi) ==
    [z \in DOMAIN xi |->
        CSub[CSum([n \in DOMAIN xi[z] |-> CMul[CInt(xi[z][n]), o.xbar[z][n]]], Len(xi[z])),
             CDiv[CSum([n \in DOMAIN xi[z] |-> CMul[o.xbar[z][n], o.xbar[z][n]]], Len(xi[z])), 2]]]

\* cmf = -sqrt(dt) * einsum('zn, n->z', xshift, self.mf_shift)
Cmf(o, xi) ==
    [z \in DOMAIN xi |->
        CMul[CInt(-ISqrt[o.dt]),
             CSum([n \in DOMAIN xi[z] |-> CMul[XShift(xi, o.xbar)[z][n], o.mf_shift[n]]],
                  Len(xi[z]))]]

\* AFQMC.propagation(walkers, xbar, ltensor) with the draw xi
propagation(o, xi) ==
    [o EXCEPT !.stage = "returned",
              !.xi = xi,
              !.phiw = propagation_onebody(o.exp_h1e,
                          propagation_twobody(o, xi, propagation_onebody(o.exp_h1e, o.phiw))),
              !.cfb = Cfb(o, xi),
              !.cmf = Cmf(o, xi)]

\* dt with sqrt(dt) exact
SquareDts == {1, 4}

\* the Cholesky field n: a real symmetric matrix
LField(n) ==
    <<<<IF n % 3 = 1 THEN 1 ELSE 0, IF n % 3 = 2 THEN 1 ELSE 0>>,
      <<IF n % 3 = 2 THEN 1 ELSE 0, IF n % 3 = 0 THEN 1 ELSE 0>>>>

\* exp_h1e as build_propagator leaves it
ExpH1eSet ==
    {<<<<CInt(1), CInt(0)>>, <<CInt(0), CInt(1)>>>>,
     <<<<CInt(2), CInt(1)>>, <<CInt(1), CInt(1)>>>>}

\* the force bias of a field and the mean-field shift of a field: mf_shift
\* is 1j times a real number
XbarSet == {CInt(0), CInt(1), CI}

MfShiftSet == {CInt(0), CI}

\* walkers.phiw on entry
Phiw0 == <<<<CInt(1), CInt(0)>>, <<CInt(1), CInt(1)>>>>

\* numpy.random.normal(0.0, 1.0, nfields * num_walkers).reshape(num_walkers, nfields)
XiSet(nfields) == [DOMAIN Phiw0 -> [1..nfields -> {-1, 1}]]

\* the values of self.taylor_order: the default of __init__, or what the
\* caller gives
TaylorOrders ==
    {Attributes([dt |-> 1, total_time |-> 0, num_walkers |-> Len(Phiw0),
                 energy_scheme |-> "hybrid", options |-> o]).taylor_order :
        o \in UNION {[D -> 0..MaxTaylor] : D \in SUBSET {"taylor_order"}}}

InitPropagation ==
    /\ NoObject
    /\ vtqedhf = NotCalled
    /\ scqedhf = NotCalled
    /\ \E order \in TaylorOrders, d \in SquareDts, e \in ExpH1eSet, nfields \in 1..MaxFields,
          b \in XbarSet, m \in MfShiftSet :
          afqmc = [stage |-> "called",
                   taylor_order |-> order,
                   dt |-> d,
                   exp_h1e |-> e,
                   ltensor |-> [n \in 1..nfields |-> LField(n)],
                   mf_shift |-> [n \in 1..nfields |-> m],
                   xbar |-> [z \in DOMAIN Phiw0 |-> [n \in 1..nfields |-> b]],
                   phiw |-> Phiw0,
                   xi |-> <<>>,
                   cfb |-> <<>>,
                   cmf |-> <<>>]

\* one call of AFQMC.propagation
Propagation ==
    /\ afqmc.stage = "called"
    /\ \E xi \in XiSet(Len(afqmc.ltensor)) : afqmc' = propagation(afqmc, xi)
    /\ UNCHANGED <<dt, total_time, nsteps, renorm_freq, property_calc_freq, energy_scheme,
                   made, vtqedhf, scqedhf, universal, gwalker, qmcs, property_buffer, eshift,
                   walkers, pc, step, time_list, energy_list, calls, rng, builds, first_run,
                   History>>

NextPropagation == Propagation

SpecPropagation == InitPropagation /\ [][NextPropagation]_vars

----------------------------------------------------------------------------
(* RHF.gaussian_derivative_f_vector of vtqedhf: nao = 2, couplings_var in
   hundredths *)

\* diff_eta of the one-body case: eta[imode, q] - eta[imode, p]
DiffEta1(eta) == [p \in DOMAIN eta |-> [q \in DOMAIN eta |-> eta[q] - eta[p]]]

\* diff_eta of the two-body case:
\* eta[imode, q] - eta[imode, p] + eta[imode, s] - eta[imode, r]
DiffEta2(eta) ==
    [p \in DOMAIN eta |-> [q \in DOMAIN eta |-> [r \in DOMAIN eta |-> [s \in DOMAIN eta |->
        eta[q] - eta[p] + eta[s] - eta[r]]]]]

\* one element of derivative: - exp(-0.5 (tmp diff)^2) (tmp diff)^2 divided by
\* couplings_var, as the exponent and the factor of the exponential; the
\* division by 0.0 gives nan or -inf and a RuntimeWarning of numpy
Element(diff, omega, c) ==
    [exponent |-> Rat[-(diff * diff), 2 * omega * omega],
     factor |-> RDiv[Rat[-(diff * diff), omega * omega], Rat[c, 100]]]

WarnsOutsideUnitRange(c) == c < 0 \/ c > 100

\* self.qed.couplings_var[imode] < -0.05 or self.qed.couplings_var[imode] > 1.05
Warns(c) == c < -5 \/ c > 105

\* gaussian_derivative_f_vector(eta, imode, onebody) for the mode imode
gaussian_derivative_f_vector(o) ==
    [o EXCEPT !.stage = "returned",
              !.log = IF Warns(o.couplings_var) THEN Append(@, "warn") ELSE @,
              !.derivative =
                 IF o.onebody
                 THEN [p \in DOMAIN o.eta |-> [q \in DOMAIN o.eta |->
                          Element(DiffEta1(o.eta)[p][q], o.omega, o.couplings_var)]]
                 ELSE [p \in DOMAIN o.eta |-> [q \in DOMAIN o.eta |->
                       [r \in DOMAIN o.eta |-> [s \in DOMAIN o.eta |->
                          Element(DiffEta2(o.eta)[p][q][r][s], o.omega, o.couplings_var)]]]]]

\* self.qed.couplings_var[imode] in hundredths: in the range, at its ends,
\* within 0.05 of it, and further out
CouplingsVarSet == {-10, -5, -3, 0, 50, 100, 103, 105, 110}

\* self.qed.omega[imode]
OmegaSet == {1, 2}

InitDerivative ==
    /\ NoObject
    /\ afqmc = NotCalled
    /\ scqedhf = NotCalled
    /\ \E c \in CouplingsVarSet, w \in OmegaSet, e \in [1..2 -> 0..MaxEta], one \in BOOLEAN :
          vtqedhf = [stage |-> "called", couplings_var |-> c, omega |-> w, eta |-> e,
                     onebody |-> one, log |-> <<>>, derivative |-> <<>>]

\* one call of gaussian_derivative_f_vector
GaussianDerivative ==
    /\ vtqedhf.stage = "called"
    /\ vtqedhf' = gaussian_derivative_f_vector(vtqedhf)
    /\ UNCHANGED <<dt, total_time, nsteps, renorm_freq, property_calc_freq, energy_scheme,
                   made, afqmc, scqedhf, universal, gwalker, qmcs, property_buffer, eshift,
                   walkers, pc, step, time_list, energy_list, calls, rng, builds, first_run,
                   History>>

NextDerivative == GaussianDerivative

SpecDerivative == InitDerivative /\ [][NextDerivative]_vars

----------------------------------------------------------------------------
(* kernel of scqedhf: energies in units of the smallest conv_tol, gradient
   norms in units of its square root *)

\* the pure-function specifications beside this one are idle
OthersIdle == NoObject /\ afqmc = NotCalled /\ vtqedhf = NotCalled

UnchangedButScqedhf ==
    UNCHANGED <<dt, total_time, nsteps, renorm_freq, property_calc_freq, energy_scheme, made,
                afqmc, vtqedhf, universal, gwalker, qmcs, property_buffer, eshift, walkers, pc,
                step, time_list, energy_list, calls, rng, builds, first_run, History>>

\* conv_tol with sqrt(conv_tol) exact
ConvTols == {1, 4}

\* what mf.energy_tot can give
Energies == {0, 1, 10}

\* what the norm of the gradient, with norm_eta added, can be
GradNorms == {0, 1, 3}

\* if conv_tol_grad is None: conv_tol_grad = numpy.sqrt(conv_tol)
ConvTolGrad(given, value, conv_tol) == IF given THEN value ELSE ISqrt[conv_tol]

ConvergedByEither(e_tot, last_hf_e, norm_gorb, conv_tol, conv_tol_grad) ==
    Abs(e_tot - last_hf_e) < conv_tol \/ norm_gorb < conv_tol_grad

ConvergedOnEnergy(e_tot, last_hf_e, norm_gorb, conv_tol, conv_tol_grad) ==
    Abs(e_tot - last_hf_e) < conv_tol

\* abs(e_tot-last_hf_e) < conv_tol and norm_gorb < conv_tol_grad
Converged(e_tot, last_hf_e, norm_gorb, conv_tol, conv_tol_grad) ==
    Abs(e_tot - last_hf_e) < conv_tol /\ norm_gorb < conv_tol_grad

\* the test of a cycle: scf_conv after it
CycleConv(o, e_tot, norm_gorb, answer) ==
    IF o.callable THEN answer
    ELSE IF Converged(e_tot, o.e_tot, norm_gorb, o.conv_tol, o.conv_tol_grad) THEN TRUE
    ELSE o.scf_conv

ExtraConvByTest(o, e_tot, norm_gorb, answer) ==
    IF o.callable THEN answer
    ELSE ConvergedByEither(e_tot, o.e_tot, norm_gorb, o.conv_tol * 10, o.conv_tol_grad * 3)

\* the test of the extra cycle, with conv_tol * 10 and conv_tol_grad * 3:
\* scf_conv after it
ExtraConv(o, e_tot, norm_gorb, answer) ==
    IF o.callable THEN answer
    ELSE IF ConvergedByEither(e_tot, o.e_tot, norm_gorb, o.conv_tol * 10, o.conv_tol_grad * 3)
         THEN TRUE
    ELSE o.scf_conv

InitScf ==
    /\ OthersIdle
    /\ \E max_cycle \in -1..MaxCycle, conv_tol \in ConvTols, given \in BOOLEAN,
          conv_check \in BOOLEAN, callable \in BOOLEAN, init_dm \in BOOLEAN :
          \E value \in IF given THEN {1, 2} ELSE {0} :
             scqedhf = [stage |-> "called",
                        max_cycle |-> max_cycle,
                        conv_tol |-> conv_tol,
                        conv_tol_grad_given |-> given,
                        conv_tol_grad |-> value,
                        conv_check |-> conv_check,
                        callable |-> callable,
                        init_dm |-> init_dm,
                        scf_conv |-> FALSE,
                        cycle |-> 0,
                        cycles |-> 0,
                        extra |-> FALSE,
                        e_tot |-> 0,
                        last_hf_e |-> 0,
                        norm_gorb |-> 0]

\* kernel up to the loop: the init_dm error, the default of conv_tol_grad,
\* the initial energy, and the return without a cycle where max_cycle <= 0
ScfEnter ==
    /\ scqedhf.stage = "called"
    /\ \E e_tot \in Energies :
          scqedhf' =
             IF scqedhf.init_dm THEN [scqedhf EXCEPT !.stage = "raised"]
             ELSE [scqedhf EXCEPT
                     !.conv_tol_grad = ConvTolGrad(scqedhf.conv_tol_grad_given, @,
                                                   scqedhf.conv_tol),
                     !.e_tot = e_tot,
                     !.stage = IF scqedhf.max_cycle <= 0 THEN "returned" ELSE "loop"]
    /\ UnchangedButScqedhf

\* one cycle of the loop, with its break and the end of range(mf.max_cycle)
ScfCycle ==
    /\ scqedhf.stage = "loop"
    /\ \E e_tot \in Energies, norm_gorb \in GradNorms, answer \in BOOLEAN :
          scqedhf' =
             [scqedhf EXCEPT
                !.last_hf_e = scqedhf.e_tot,
                !.e_tot = e_tot,
                !.norm_gorb = norm_gorb,
                !.scf_conv = CycleConv(scqedhf, e_tot, norm_gorb, answer),
                !.cycles = @ + 1,
                !.cycle = IF CycleConv(scqedhf, e_tot, norm_gorb, answer)
                             \/ @ + 1 >= scqedhf.max_cycle
                          THEN @ ELSE @ + 1,
                !.stage = IF CycleConv(scqedhf, e_tot, norm_gorb, answer)
                             \/ scqedhf.cycle + 1 >= scqedhf.max_cycle
                          THEN "after_loop" ELSE "loop"]
    /\ UnchangedButScqedhf

\* the extra cycle where scf_conv and conv_check, and the return
ScfFinish ==
    /\ scqedhf.stage = "after_loop"
    /\ \E e_tot \in Energies, norm_gorb \in GradNorms, answer \in BOOLEAN :
          scqedhf' =
             IF scqedhf.scf_conv /\ scqedhf.conv_check
             THEN [scqedhf EXCEPT
                     !.last_hf_e = scqedhf.e_tot,
                     !.e_tot = e_tot,
                     !.norm_gorb = norm_gorb,
                     !.conv_tol = @ * 10,
                     !.conv_tol_grad = @ * 3,
                     !.scf_conv = ExtraConv(scqedhf, e_tot, norm_gorb, answer),
                     !.extra = TRUE,
                     !.stage = "returned"]
             ELSE [scqedhf EXCEPT !.stage = "returned"]
    /\ UnchangedButScqedhf

NextScf == ScfEnter \/ ScfCycle \/ ScfFinish

SpecScf == InitScf /\ [][NextScf]_vars

FairSpecScf == SpecScf /\ WF_vars(NextScf)

----------------------------------------------------------------------------
(* A second call of kernel *)

\* what the call that has returned gave
Returned(twin) ==
    [first_run EXCEPT !.returned = TRUE, !.twin = twin, !.time_list = time_list,
                      !.energy_list = energy_list]

\* kernel is called again on the same object: the object is as the first
\* call left it
KernelAgain ==
    /\ pc = "done"
    /\ first_run.watching
    /\ ~first_run.returned
    /\ first_run' = Returned(FALSE)
    /\ pc' = "enter"
    /\ calls' = <<>>
    /\ UNCHANGED <<config, rng, builds, property_buffer, eshift, walkers, step,
                   time_list, energy_list, History>>

\* kernel is called on a second object, constructed with the same arguments
\* in the same process
KernelOfTwin ==
    /\ pc = "done"
    /\ first_run.watching
    /\ ~first_run.returned
    /\ first_run' = Returned(TRUE)
    /\ walkers' = first_run.walkers0
    /\ property_buffer' = BufferZero
    /\ eshift' = Zero
    /\ builds' = 1
    /\ pc' = "enter"
    /\ calls' = <<>>
    /\ UNCHANGED <<config, rng, step, time_list, energy_list, History>>

NextAgain ==
    \/ Next
    \/ KernelAgain
    \/ KernelOfTwin

InitAgain == Constructed(TRUE, MaxAgainTime) /\ universal = NotCalled

SpecAgain == InitAgain /\ [][NextAgain]_vars

----------------------------------------------------------------------------
(* RHF.scf of scqedhf: the attributes of mf it assigns, with kernel taken by
   what it does to mf before its loop and by what it returns. Orbitals are
   named by where they come from *)

None == <<"None", 0>>

\* mo_coeff as the caller set it before scf
GivenOrbitals == <<"given", 0>>

\* self.get_bare_mo_coeff(dm)[1]
BareOrbitals == <<"bare", 0>>

\* the eigenpairs kernel can return
Solutions == {1, 2}

\* what mf.eig and mf.get_occ give kernel for the solution k
Eigen(k) == [mo_energy |-> <<"mo_energy", k>>, mo_coeff |-> <<"mo_coeff", k>>,
             mo_occ |-> <<"mo_occ", k>>]

\* self.max_cycle > 0 or self.mo_coeff is None
UpdatesOrbitals(mf) == mf.max_cycle > 0 \/ mf.mo_coeff = None

\* the attributes scf is said to leave alone in the non-SCF initialization
Orbitals(mf) ==
    [converged |-> mf.converged, mo_energy |-> mf.mo_energy, mo_coeff |-> mf.mo_coeff,
     mo_occ |-> mf.mo_occ]

\* initialize_eta(dm): eta and eta_grad are set to zeros and mo_coeff to the
\* bare orbitals
initialize_eta(mf) == [mf EXCEPT !.eta = <<"eta", 0>>, !.mo_coeff = BareOrbitals]

\* init_var_params(dm)
init_var_params(mf) == IF mf.eta = None THEN initialize_eta(mf) ELSE mf

\* a new object, with max_cycle and possibly mo_coeff set by the caller
InitRhf ==
    /\ OthersIdle
    /\ \E max_cycle \in -1..MaxCycle, mo_coeff \in {None, GivenOrbitals} :
          scqedhf = [stage |-> "ready", first |-> TRUE, max_cycle |-> max_cycle,
                     converged |-> FALSE, e_tot |-> 0, mo_energy |-> None,
                     mo_coeff |-> mo_coeff, mo_occ |-> None, eta |-> None,
                     updates |-> FALSE, entry |-> <<>>]

\* scf up to the call of kernel: the test of the branch
RhfScf ==
    /\ scqedhf.stage = "ready"
    /\ scqedhf' = [scqedhf EXCEPT !.stage = "kernel",
                                  !.updates = UpdatesOrbitals(scqedhf),
                                  !.entry = Orbitals(scqedhf)]
    /\ UnchangedButScqedhf

\* kernel before its loop: mf.init_var_params(dm)
KernelInitVarParams ==
    /\ scqedhf.stage = "kernel"
    /\ scqedhf' = [init_var_params(scqedhf) EXCEPT !.stage = "solved"]
    /\ UnchangedButScqedhf

\* kernel returns scf_conv, e_tot, mo_energy, mo_coeff, mo_occ and scf assigns
\* them, or e_tot alone
RhfScfAssign ==
    /\ scqedhf.stage = "solved"
    /\ \E k \in Solutions, e_tot \in Energies,
          scf_conv \in IF scqedhf.max_cycle <= 0 THEN {FALSE} ELSE BOOLEAN :
          scqedhf' =
             IF scqedhf.updates
             THEN [scqedhf EXCEPT !.stage = "returned",
                                  !.converged = scf_conv,
                                  !.e_tot = e_tot,
                                  !.mo_energy = Eigen(k).mo_energy,
                                  !.mo_coeff = Eigen(k).mo_coeff,
                                  !.mo_occ = Eigen(k).mo_occ]
             ELSE [scqedhf EXCEPT !.stage = "returned", !.e_tot = e_tot]
    /\ UnchangedButScqedhf

\* the caller sets max_cycle and calls scf once more
RhfScfAgain ==
    /\ scqedhf.stage = "returned"
    /\ scqedhf.first
    /\ \E max_cycle \in -1..MaxCycle :
          scqedhf' = [scqedhf EXCEPT !.stage = "ready", !.first = FALSE,
                                    !.max_cycle = max_cycle]
    /\ UnchangedButScqedhf

NextRhf == RhfScf \/ KernelInitVarParams \/ RhfScfAssign \/ RhfScfAgain

SpecRhf == InitRhf /\ [][NextRhf]_vars

----------------------------------------------------------------------------
(* RHF.check_n_resolve_degeneracy: evals is an ascending list of integers,
   and a column of mo2dipole is given by the set of the columns of the
   argument it is a combination of. p, r and s count from 0 as in the code,
   columns of the model count from 1 *)

MaxNao == 4

\* the gaps between successive eigenvalues
Gaps == 0..3

\* values of self.dipole_degen_thresh
DegenThresholds == {1, 2}

\* the eigenvalues with the given first value and gaps
RECURSIVE EvalsOf(_, _)
EvalsOf(first, gaps) ==
    IF gaps = <<>> THEN <<first>>
    ELSE <<first>> \o EvalsOf(first + Head(gaps), Tail(gaps))

\* mo2dipole as it is passed
Untouched(nao) == [i \in 1..nao |-> {i}]

\* mo2dipole[:, r : s] = vectors . evecs: every column of the block becomes a
\* combination of the columns of the block
Rotated(m, r, s) ==
    [i \in DOMAIN m |->
        IF r + 1 <= i /\ i <= s THEN UNION {m[j] : j \in (r + 1)..s} ELSE m[i]]

\* abs(ediff) < self.dipole_degen_thresh
SameLevel(ediff, thresh) == Abs(ediff) < thresh

\* abs(ediff) > self.dipole_degen_thresh and degeneracy > 1
RunEnds(ediff, thresh, degeneracy) == Abs(ediff) > thresh /\ degeneracy > 1

\* one pass of the body of the loop
DegeneracyBody(o) ==
    LET ediff == o.evals[o.p + 2] - o.evals[o.p + 1]
    IN  IF SameLevel(ediff, o.thresh)
        THEN [o EXCEPT !.degeneracy = @ + 1, !.p = @ + 1]
        ELSE IF RunEnds(ediff, o.thresh, o.degeneracy)
        THEN [o EXCEPT !.mo2dipole = Rotated(@, o.p + 1 - o.degeneracy, o.p + 1),
                       !.degeneracy = 1,
                       !.p = @ + 1]
        ELSE [o EXCEPT !.p = @ + 1]

InitDegeneracy ==
    /\ OthersIdle
    /\ \E nao \in 2..MaxNao, thresh \in DegenThresholds :
         \E gaps \in [1..(nao - 1) -> Gaps] :
            scqedhf = [stage |-> "loop", nao |-> nao, thresh |-> thresh,
                       evals |-> EvalsOf(0, gaps), p |-> 0, degeneracy |-> 1,
                       mo2dipole |-> Untouched(nao)]

\* for p in range(self.nao - 1): one iteration
DegeneracyIteration ==
    /\ scqedhf.stage = "loop"
    /\ scqedhf.p < scqedhf.nao - 1
    /\ scqedhf' = DegeneracyBody(scqedhf)
    /\ UnchangedButScqedhf

\* the loop is exhausted: return self
DegeneracyReturn ==
    /\ scqedhf.stage = "loop"
    /\ scqedhf.p >= scqedhf.nao - 1
    /\ scqedhf' = [scqedhf EXCEPT !.stage = "returned"]
    /\ UnchangedButScqedhf

NextDegeneracy == DegeneracyIteration \/ DegeneracyReturn

SpecDegeneracy == InitDegeneracy /\ [][NextDegeneracy]_vars

----------------------------------------------------------------------------
(* The QMC objects of a session: the spin settings and the walker options
   QMCbase.__init__ and build() set. A dict is a function of its keys;
   gwalker is the one dict object of the module, and an attribute bound to
   it holds a reference, not a copy *)

MaxObjects == 2

\* the keyword arguments read for the spin settings
SpinKeys == {"uhf", "use_so", "use_spinorbital"}

SpinKwargs == UNION {[D -> BOOLEAN] : D \in SUBSET SpinKeys}

\* kwargs.get(key, default)
Get(kwargs, key, default) == IF key \in DOMAIN kwargs THEN kwargs[key] ELSE default

\* d.update(t)
Update(d, t) ==
    [k \in DOMAIN d \cup DOMAIN t |-> IF k \in DOMAIN t THEN t[k] ELSE d[k]]

\* num_walkers as the caller gives it
NumWalkers == {None, <<"int", 1>>, <<"int", 2>>}

\* the walker_options of kwargs: None where the key is absent, or a dict
WalkerOptions == {[none |-> TRUE], [none |-> FALSE, dict |-> [nwalkers |-> 3]]}

\* a reference to the dict of the module
ModuleDict == [ref |-> "gwalker.default_walker_options"]

\* the dict a reference points to
Deref(reference, module) == module

\* self.uhf, self.use_so as __init__ leaves them: the assignments of lines
\* 258-267, then self.__dict__.update(kwargs)
SpinAttributes(kwargs) ==
    LET uhf == Get(kwargs, "uhf", FALSE)
        use_so0 == Get(kwargs, "use_so", FALSE)
        use_so1 == IF "use_so" \notin DOMAIN kwargs
                   THEN Get(kwargs, "use_spinorbital", FALSE) ELSE use_so0
        use_so2 == IF uhf THEN TRUE ELSE use_so1
    IN  Update([uhf |-> uhf, use_so |-> use_so2], kwargs)

\* build(): the number of spin components
NComponents(uhf, use_so) == IF uhf \/ use_so THEN 2 ELSE 1

\* the dict of the module after the walker options of __init__
WalkerOptionsSet(module, tmp_walker_options, num_walkers) ==
    LET updated == IF ~tmp_walker_options.none
                   THEN Update(module, tmp_walker_options.dict) ELSE module
    IN  IF num_walkers # None THEN Update(updated, [nwalkers |-> num_walkers[2]])
        ELSE updated

\* the object __init__ leaves, build() included
NewObject(kwargs, tmp_walker_options, num_walkers, module) ==
    [uhf |-> SpinAttributes(kwargs).uhf,
     use_so |-> SpinAttributes(kwargs).use_so,
     ncomponents |-> NComponents(SpinAttributes(kwargs).uhf, SpinAttributes(kwargs).use_so),
     spin_fac |-> Rat[1, NComponents(SpinAttributes(kwargs).uhf,
                                     SpinAttributes(kwargs).use_so)],
     walker_options |-> ModuleDict,
     nwalkers |-> Deref(ModuleDict,
                        WalkerOptionsSet(module, tmp_walker_options, num_walkers)).nwalkers,
     given |-> [walker_options |-> tmp_walker_options, num_walkers |-> num_walkers]]

InitSession ==
    /\ OthersIdle
    /\ scqedhf = NotCalled

\* QMCbase(system, num_walkers=..., **kwargs)
NewQMC ==
    /\ Len(qmcs) < MaxObjects
    /\ \E kwargs \in SpinKwargs, tmp_walker_options \in WalkerOptions,
          num_walkers \in NumWalkers :
          /\ gwalker' = WalkerOptionsSet(gwalker, tmp_walker_options, num_walkers)
          /\ qmcs' = Append(qmcs, NewObject(kwargs, tmp_walker_options, num_walkers, gwalker))
    /\ UNCHANGED <<dt, total_time, nsteps, renorm_freq, property_calc_freq, energy_scheme, made,
                   afqmc, vtqedhf, scqedhf, universal, property_buffer, eshift, walkers, pc,
                   step, time_list, energy_list, calls, rng, builds, first_run, History>>

NextSession == NewQMC

SpecSession == InitSession /\ [][NextSession]_vars

----------------------------------------------------------------------------
(* The module-level kernel(mc, propagator=None, trial=None), called on a twin
   of the object after the method kernel has returned on the object: the twin
   is constructed with the same arguments and is given the same stream of
   draws *)

UnchangedButUniversal ==
    UNCHANGED <<dt, total_time, nsteps, renorm_freq, property_calc_freq, energy_scheme, made,
                afqmc, vtqedhf, scqedhf, gwalker, qmcs, property_buffer, eshift, walkers, pc,
                step, time_list, energy_list, calls, rng, builds, first_run, History>>

\* the twin before the call
UniversalCalled(w) ==
    [stage |-> "called", walkers |-> w, property_buffer |-> BufferZero, eshift |-> Zero,
     step |-> 0, calls |-> <<>>, time_list |-> <<>>, energy_list |-> <<>>, error |-> "none"]

\* names the module-level kernel reads that are neither its parameters, nor
\* assigned in it, nor names of the module
UnboundNames == {"vbias"}

\* the names in the argument list of the propagate_walkers call
PropagateArguments == {"trial", "walkers", "vbias", "ltensor", "mc", "dump_result"}

\* evaluating the names raises NameError
RaisesNameError(names) == names \cap UnboundNames # {}

UniversalDid(name, s) == Append(universal.calls, <<name, s>>)

\* backend.random.seed(mc.random_seed) and propagator.build(h1e, ltensor, trial, mc.geb)
UniversalBuild ==
    /\ pc = "done"
    /\ universal.stage = "called"
    /\ universal' = [universal EXCEPT !.stage = "initial_ortho",
                                      !.calls = UniversalDid("build", -1)]
    /\ UnchangedButUniversal

\* mc.orthogonalization() before the loop
UniversalInitialOrthogonalization ==
    /\ universal.stage = "initial_ortho"
    /\ universal' = [universal EXCEPT !.stage = "initial_stack",
                                      !.walkers = orthogonalization(@),
                                      !.calls = UniversalDid("orthogonalization", -1)]
    /\ UnchangedButUniversal

\* mc.property_stack(walkers, -1) and the set-up of the loop
UniversalInitialPropertyStack ==
    /\ universal.stage = "initial_stack"
    /\ universal' =
          [universal EXCEPT
             !.stage = "loop",
             !.property_buffer = property_stack(universal.property_buffer, universal.eshift,
                                                universal.walkers, -1,
                                                property_calc_freq).property_buffer,
             !.eshift = property_stack(universal.property_buffer, universal.eshift,
                                       universal.walkers, -1, property_calc_freq).eshift,
             !.step = 0,
             !.time_list = <<>>,
             !.energy_list = <<>>,
             !.calls = UniversalDid("property_stack", -1)]
    /\ UnchangedButUniversal

\* the head of an iteration, with the periodic re-orthogonalization when due
UniversalLoopOrthogonalization ==
    /\ universal.stage = "loop"
    /\ LoopContinues(universal.step, nsteps)
    /\ RenormDue(universal.step, renorm_freq)
    /\ universal' = [universal EXCEPT !.stage = "propagate",
                                      !.walkers = orthogonalization(@),
                                      !.calls = UniversalDid("orthogonalization",
                                                             universal.step)]
    /\ UnchangedButUniversal

\* the head of an iteration in which no re-orthogonalization is due
UniversalLoopSkipOrthogonalization ==
    /\ universal.stage = "loop"
    /\ LoopContinues(universal.step, nsteps)
    /\ ~RenormDue(universal.step, renorm_freq)
    /\ universal' = [universal EXCEPT !.stage = "propagate"]
    /\ UnchangedButUniversal

\* propagator.propagate_walkers(trial, walkers, vbias, ltensor, eshift=mc.eshift, ...):
\* the arguments are evaluated before the call, and vbias is not bound, so the
\* call is not made and kernel ends with NameError. The statements after it
\* in the body of the loop (weight_control, property_stack, the measurement)
\* are never reached
UniversalPropagate ==
    /\ universal.stage = "propagate"
    /\ RaisesNameError(PropagateArguments)
    /\ universal' = [universal EXCEPT !.stage = "raised", !.error = "NameError"]
    /\ UnchangedButUniversal

\* the loop is exhausted: mc.post_kernel() and return time_list, energy_list
UniversalPostKernel ==
    /\ universal.stage = "loop"
    /\ ~LoopContinues(universal.step, nsteps)
    /\ universal' = [universal EXCEPT !.stage = "returned",
                                      !.calls = UniversalDid("post_kernel", universal.step)]
    /\ UnchangedButUniversal

NextUniversal ==
    \/ Next
    \/ UniversalBuild
    \/ UniversalInitialOrthogonalization
    \/ UniversalInitialPropertyStack
    \/ UniversalLoopOrthogonalization
    \/ UniversalLoopSkipOrthogonalization
    \/ UniversalPropagate
    \/ UniversalPostKernel

InitUniversal ==
    /\ Constructed(TRUE, MaxAgainTime)
    /\ universal = UniversalCalled(walkers)

SpecUniversal == InitUniversal /\ [][NextUniversal]_vars

----------------------------------------------------------------------------
(* Properties of the driver loop *)

CallCount(name) == Cardinality({i \in 1..Len(calls) : calls[i][1] = name})

LastCall == IF calls = <<>> THEN <<"none", -1>> ELSE calls[Len(calls)]

\* the step of the last property_stack(walkers, step) call with step >= 0
LastStacked == IF pc = "measure" THEN step ELSE step - 1

SumBuffers(seq) ==
    [i \in Index |-> SumTo([k \in 1..Len(seq) |-> seq[k][i]], Len(seq))]

\* C1: in every iteration the calls are made in the order orthogonalization
\* (only when due), propagate_walkers, weight_control, property_stack: each
\* weight_control(s) directly follows propagate_walkers(s), each
\* property_stack(s) directly follows weight_control(s), and the propagation of
\* step s follows the property_stack of step s - 1, with at most the
\* orthogonalization of step s in between
C1_IterationOrder ==
    \A i \in 1..Len(calls) :
        LET c == calls[i]
            prev == IF i = 1 THEN <<"none", -1>> ELSE calls[i - 1]
        IN  /\ (c[1] = "weight_control") => prev = <<"propagate_walkers", c[2]>>
            /\ (c[1] = "property_stack" /\ c[2] >= 0) => prev = <<"weight_control", c[2]>>
            /\ (c[1] = "propagate_walkers") =>
                  prev \in {<<"orthogonalization", c[2]>>, <<"property_stack", c[2] - 1>>}
            /\ (c[1] = "orthogonalization" /\ c[2] >= 0) =>
                  prev = <<"property_stack", c[2] - 1>>
            /\ (c[1] = "post_kernel") => prev[1] \in {"property_stack"}

C1_Witness ==
    /\ pc = "property_stack"
    /\ step = 1
    /\ \E i \in 1..Len(calls) : calls[i] = <<"orthogonalization", 1>>
    /\ \E i \in 1..Len(calls) : calls[i] = <<"weight_control", 0>>

\* C2: kernel terminates: eventually it has returned, having run exactly
\* nsteps = int(total_time / dt) iterations and called post_kernel once, last
C2_Terminates ==
    <>[](/\ pc = "done"
         /\ step = nsteps
         /\ nsteps = total_time \div dt
         /\ CallCount("propagate_walkers") = nsteps
         /\ CallCount("property_stack") = nsteps + 1
         /\ CallCount("post_kernel") = 1
         /\ LastCall[1] = "post_kernel")

C2_Witness == pc = "done" /\ nsteps = 2 /\ Len(energy_list) = 2

\* C3: property_stack adds the four ensemble sums of every step >= 0 to the
\* buffer and empties the buffer exactly on the steps with
\* (step + 1) % property_calc_freq = 0: the buffer holds the sums of the steps
\* since the last such step, a reduction sees the sums of exactly
\* property_calc_freq steps, and the call with step -1 changes nothing
C3_Sums(w) ==
    <<WalkerSum(w, w.weights),
      WalkerSum(w, w.weights_org),
      WalkerSum(w, [iw \in WalkerIds(w) |-> RMul[w.weights[iw], w.ehybrid[iw]]]),
      WalkerSum(w, [iw \in WalkerIds(w) |-> RMul[w.weights[iw], w.eloc[iw]]])>>

C3_BufferHoldsWindow ==
    LET s == LastStacked
        f == property_calc_freq
    IN  IF s < 0 THEN property_buffer = BufferZero /\ eshift = Zero
        ELSE /\ Len(stacked) = (s % f) + 1
             /\ (pc = "measure") => stacked[Len(stacked)] = C3_Sums(walkers)
             /\ property_buffer =
                   IF (s + 1) % f = 0 THEN BufferZero ELSE SumBuffers(stacked)
             /\ ((s + 1) % f = 0) =>
                   /\ last_reduction.step = s
                   /\ last_reduction.accumulated = SumBuffers(stacked)
                   /\ Len(stacked) = f
             /\ ((s + 1) % f # 0) => last_reduction.step = s - ((s + 1) % f)

C3_Witness ==
    /\ pc = "measure"
    /\ property_calc_freq = 2
    /\ step = 1
    /\ property_buffer = BufferZero
    /\ stacked[1] # stacked[2]
    /\ last_reduction.accumulated[1] # Zero

\* C4: at each reduction eshift is the hybrid energy accumulated over the
\* window divided by the weight accumulated over the window, the weight being
\* the raw sum and not the one divided by the window length, whatever the
\* energy scheme
C4_EshiftIsWindowHybrid ==
    LET s == LastStacked
        acc == SumBuffers(stacked)
    IN  (s >= 0 /\ (s + 1) % property_calc_freq = 0) =>
            eshift = RDiv[acc[3], acc[1]]

C4_Witness ==
    /\ pc = "measure"
    /\ property_calc_freq = 2
    /\ step = 1
    /\ energy_scheme = "local"
    /\ IsFinite(eshift)
    /\ eshift # Zero
    /\ SumBuffers(stacked)[3] # SumBuffers(stacked)[4]
    /\ stacked[1][1] # stacked[2][1]

\* C5: the eshift passed to propagate_walkers lags by one window: the steps of
\* the first window get 0, the steps of window k >= 1 get the value of the
\* reduction that ended window k - 1; a step changes eshift only if it is a
\* property_stack call on a property_calc_freq boundary
C5_EshiftLagsOneWindow ==
    /\ [](LET f == property_calc_freq
          IN  (pc = "weight_control") =>
                 IF step < f THEN eshift_arg = Zero
                 ELSE /\ eshift_arg = last_reduction.eshift
                      /\ last_reduction.step = f * (step \div f) - 1)
    /\ [][eshift' # eshift =>
            /\ pc = "property_stack"
            /\ (step + 1) % property_calc_freq = 0]_vars

C5_Witness ==
    /\ pc = "weight_control"
    /\ step = 1
    /\ property_calc_freq = 1
    /\ eshift_arg # Zero
    /\ IsFinite(eshift_arg)

\* C6: the energy appended to energy_list on a property_calc_freq boundary is
\* the estimate of the window: the weight * local energy accumulated over the
\* steps of the window divided by the weight accumulated over them
C6_EmittedIsWindowEstimate ==
    LET acc == SumBuffers(stacked)
    IN  (pc \in {"loop", "done"} /\ step >= 1 /\ step % property_calc_freq = 0) =>
            /\ energy_list # <<>>
            /\ energy_list[Len(energy_list)] = RDiv[acc[4], acc[1]]

\* C7: weight_control is called only on steps that fall on a pop_control_freq
\* boundary, whichever of the two conventions of the loop is meant
C7_ControlOnlyOnBoundaries ==
    \A i \in 1..Len(calls) :
        (calls[i][1] = "weight_control") =>
            \/ calls[i][2] % pop_control_freq = 0
            \/ (calls[i][2] + 1) % pop_control_freq = 0

\* the iterations whose head has been passed
C8_Entered == {s \in 0..step : s < step \/ pc \in {"propagate", "weight_control",
                                                     "property_stack", "measure"}}

C8_Count(c) == Cardinality({i \in 1..Len(calls) : calls[i] = c})

\* C8: in the loop orthogonalization is called in step s iff
\* (s + 1) % renorm_freq = 0, once, so nsteps \div renorm_freq times in all;
\* before the loop it is called exactly once, directly after the build
C8_OrthogonalizationSchedule ==
    /\ \A s \in C8_Entered :
          C8_Count(<<"orthogonalization", s>>) = IF (s + 1) % renorm_freq = 0 THEN 1 ELSE 0
    /\ \A i \in 1..Len(calls) :
          (calls[i][1] = "orthogonalization" /\ calls[i][2] >= 0) => calls[i][2] \in C8_Entered
    /\ (pc = "done") =>
          CallCount("orthogonalization") - 1 = nsteps \div renorm_freq
    /\ IF pc \in {"enter", "initial_ortho"} THEN CallCount("orthogonalization") = 0
       ELSE /\ C8_Count(<<"orthogonalization", -1>>) = 1
            /\ calls[1] = <<"build", -1>>
            /\ calls[2] = <<"orthogonalization", -1>>

C8_Witness ==
    /\ pc = "done"
    /\ nsteps = 4
    /\ renorm_freq = 2
    /\ CallCount("orthogonalization") = 3

C10_Factor(w, iw) ==
    LET log_a == Log[ColNorm(w.phiwa[iw])]
        log_b == Log[ColNorm(w.phiwb[iw])]
    IN  Exp[LSub(IF w.ncomponents > 1 THEN LAdd(log_a, log_b) ELSE log_a, w.detR_shift[iw])]

\* C10: a call of orthogonalization adds to log_detR[iw] the logarithm of the
\* factor by which it divides ovlp[iw], so that ovlp[iw] * exp(log_detR[iw])
\* is kept, and leaves the weights alone
C10_OverlapBookkeeping ==
    [][(pc = "orthogonalization") =>
          /\ walkers'.weights = walkers.weights
          /\ \A iw \in WalkerIds(walkers) :
                /\ walkers'.log_detR[iw] =
                      LAdd(walkers.log_detR[iw], Log[C10_Factor(walkers, iw)])
                /\ walkers'.ovlp[iw] = RDiv[walkers.ovlp[iw], C10_Factor(walkers, iw)]
                /\ RMul[walkers'.ovlp[iw], Exp[walkers'.log_detR[iw]]] =
                      RMul[walkers.ovlp[iw], Exp[walkers.log_detR[iw]]]]_vars

C10_Witness ==
    /\ pc = "orthogonalization"
    /\ Len(calls) = 1
    /\ walkers.ncomponents = 2
    /\ walkers.detR[1] = <<25, 2>>
    /\ walkers.log_detR[1] = <<-1, 2>>
    /\ walkers.ovlp[1] = <<2, 5>>
    /\ walkers.weights[1] = One

\* C11: directly after a call of orthogonalization the column of every spin
\* component present of every walker is orthonormal
C11_OrthonormalAfterCall ==
    (LastCall[1] = "orthogonalization") =>
        \A iw \in WalkerIds(walkers) :
            /\ IsOrthonormal(walkers.phiwa[iw])
            /\ (walkers.ncomponents > 1) => IsOrthonormal(walkers.phiwb[iw])

C11_Witness ==
    /\ pc = "orthogonalization"
    /\ Len(calls) = 1
    /\ walkers.ncomponents = 2
    /\ walkers.nwalkers = 2
    /\ walkers.detR[1] = <<25, 2>>
    /\ walkers.detR[2] = <<5, 1>>
    /\ IsOrthonormal(walkers.phiwa[2])
    /\ IsOrthonormal(walkers.phiwb[2])

\* the per-walker arrays have one entry per walker
C12_Shapes(w) ==
    \A name \in {"phiwa", "phiwb", "ovlp", "log_detR", "detR", "weights", "weights_org",
                  "ehybrid", "eloc"} :
        DOMAIN w[name] = 1..w.nwalkers

C13_TimeSeries ==
    /\ [](/\ Len(time_list) = Len(energy_list)
          /\ Len(time_list) = step \div property_calc_freq
          /\ \A k \in 1..Len(time_list) :
                time_list[k] = dt * (k * property_calc_freq - 1)
          /\ \A k \in 2..Len(time_list) : time_list[k - 1] < time_list[k]
          /\ (pc = "done") => Len(energy_list) = nsteps \div property_calc_freq)
    /\ [][(energy_list' # energy_list \/ time_list' # time_list) =>
            /\ pc = "measure"
            /\ step = (Len(energy_list) + 1) * property_calc_freq - 1
            /\ Len(energy_list') = Len(energy_list) + 1
            /\ Len(time_list') = Len(time_list) + 1]_vars

C13_Witness ==
    /\ pc = "done"
    /\ dt = 1
    /\ nsteps = 4
    /\ property_calc_freq = 2
    /\ time_list = <<1, 3>>
    /\ Len(energy_list) = 2

C15_BuildOnce ==
    /\ builds <= 1
    /\ (CallCount("orthogonalization") > 0 \/ CallCount("propagate_walkers") > 0 \/ pc = "done")
          => builds = 1

\* whether a singular value of the two-body tensor that is not zero was cut
\* off, so that the fields kept do not give the tensor back
C16_UnderResolved(m) == \E i \in 1..Len(m.eri) : m.eri[i] > 0 /\ ~(m.eri[i] > m.chol_thresh)

\* C16: a chol_thresh so large that the fields kept do not reproduce the
\* two-body tensor makes the build raise, before any stochastic step runs and
\* before any walker is changed
C16_UnderResolvedRaises ==
    (pc # "new" /\ C16_UnderResolved(made)) => (pc = "raised" /\ calls = <<>>)

\* the attribute the run uses for an option
C17_Attribute(name) ==
    CASE name = "renorm_freq" -> renorm_freq
      [] name = "random_seed" -> made.random_seed
      [] name = "taylor_order" -> made.taylor_order
      [] name = "nsteps" -> nsteps
      [] name = "pop_control_freq" -> made.pop_control_freq
      [] name = "property_calc_freq" -> property_calc_freq
      [] name = "chol_thresh" -> made.chol_thresh

\* C17: every option the caller gives to the constructor is the value of the
\* attribute after construction
C17_SuppliedIsUsed ==
    pc # "new" =>
       /\ dt = made.call.dt
       /\ total_time = made.call.total_time
       /\ walkers.nwalkers = made.call.num_walkers
       /\ made.nwalkers = made.call.num_walkers
       /\ energy_scheme = made.call.energy_scheme
       /\ \A name \in DOMAIN made.call.options :
             C17_Attribute(name) = made.call.options[name]

\* the walkers after the two one-body half steps alone
C18_OneBodyOnly(o) == propagation_onebody(o.exp_h1e, propagation_onebody(o.exp_h1e, Phiw0))

\* C18: with taylor_order = 0 the propagation is the two one-body half steps,
\* and what it returns for the weights does not depend on the draw of the
\* auxiliary fields
C18_OrderZeroIsOneBody ==
    (afqmc.stage = "returned" /\ afqmc.taylor_order = 0) =>
       /\ afqmc.phiw = C18_OneBodyOnly(afqmc)
       /\ \A xi \in XiSet(Len(afqmc.ltensor)) :
             afqmc.cfb = Cfb(afqmc, xi) /\ afqmc.cmf = Cmf(afqmc, xi)

\* a^n v
RECURSIVE C19_Power(_, _, _)
C19_Power(a, n, v) == IF n = 0 THEN v ELSE MatVec(a, C19_Power(a, n - 1, v))

RECURSIVE C19_Factorial(_)
C19_Factorial(n) == IF n = 0 THEN 1 ELSE n * C19_Factorial(n - 1)

\* the sum over n = 0..k of a^n v / n!
RECURSIVE C19_Series(_, _, _)
C19_Series(a, k, v) ==
    IF k = 0 THEN v
    ELSE VAdd(C19_Series(a, k - 1, v), VDiv(C19_Power(a, k, v), C19_Factorial(k)))

\* the walker z between the two one-body half steps, by the series
C19_Expected(o, z) ==
    C19_Series(TwoBodyOpPower(o.dt, XShift(o.xi, o.xbar), o.ltensor, z), o.taylor_order,
               MatVec(o.exp_h1e, Phiw0[z]))

\* C19: the two-body step takes the matrix phi of each walker to the sum over
\* n = 0..taylor_order of A^n phi / n!, with A = 1j sqrt(dt) sum (x - xbar) L
\* of that walker; taylor_order is what the caller gives, and 6 without
C19_TruncatedSeries ==
    /\ afqmc.stage = "returned" =>
          \A z \in DOMAIN Phiw0 : afqmc.phiw[z] = MatVec(afqmc.exp_h1e, C19_Expected(afqmc, z))
    /\ afqmc.stage # "idle" => afqmc.taylor_order \in (0..MaxTaylor) \cup {6}

\* the default order on walkers that the series changes: the two rows of the
\* draw differ, and the sixth term is not zero
C19_Witness ==
    /\ afqmc.stage = "returned"
    /\ afqmc.taylor_order = 6
    /\ afqmc.xi[1] # afqmc.xi[2]
    /\ \A z \in DOMAIN Phiw0 :
          /\ C19_Expected(afqmc, z) # C19_Series(TwoBodyOpPower(afqmc.dt,
                  XShift(afqmc.xi, afqmc.xbar), afqmc.ltensor, z), 5,
                  MatVec(afqmc.exp_h1e, Phiw0[z]))
          /\ afqmc.xbar[z][1] # CInt(0)

\* the derivative is returned in the shape of the case: every element is
\* there, finite or not
C20_Returned(o) ==
    /\ o.stage = "returned"
    /\ DOMAIN o.derivative = DOMAIN o.eta
    /\ \A p, q \in DOMAIN o.eta :
          IF o.onebody THEN DOMAIN o.derivative[p][q] = {"exponent", "factor"}
          ELSE \A r, s \in DOMAIN o.eta :
                  DOMAIN o.derivative[p][q][r][s] = {"exponent", "factor"}

\* C20 as stated: a couplings_var outside [0, 1] is logged as a warning, and
\* the derivative is returned in every case
C20_WarnsOutsideZeroOne ==
    vtqedhf.stage \notin {"idle", "called"} =>
       /\ (vtqedhf.couplings_var < 0 \/ vtqedhf.couplings_var > 100) =>
             vtqedhf.log = <<"warn">>
       /\ C20_Returned(vtqedhf)

\* C20: a couplings_var below -0.05 or above 1.05, and no other, is logged as
\* a warning, and the derivative is returned in every case
C20_WarnsOutsideTolerance ==
    vtqedhf.stage \notin {"idle", "called"} =>
       /\ vtqedhf.log =
             IF vtqedhf.couplings_var < -5 \/ vtqedhf.couplings_var > 105
             THEN <<"warn">> ELSE <<>>
       /\ C20_Returned(vtqedhf)

\* a warning is logged and the derivative of the two-body case is returned
C20_Witness ==
    /\ C20_Returned(vtqedhf)
    /\ vtqedhf.couplings_var > 105
    /\ vtqedhf.log = <<"warn">>
    /\ ~vtqedhf.onebody
    /\ vtqedhf.derivative[1][2][1][2].factor # Zero

\* C21: no step of kernel changes h1e, ltensor, nuc_energy or the trial
\* state, nor an option of the run: what changes is walkers, eshift,
\* property_buffer and what kernel keeps of its own
C21_HamiltonianUntouched ==
    [][/\ made'.h1e = made.h1e
       /\ made'.ltensor = made.ltensor
       /\ made'.nuc_energy = made.nuc_energy
       /\ made'.trial = made.trial
       /\ UNCHANGED attributes]_vars

\* a second run that has built, propagated twice and measured
C21_Witness ==
    /\ pc = "done"
    /\ CallCount("build") = 1
    /\ CallCount("propagate_walkers") >= 2
    /\ energy_list # <<>>
    /\ first_run.returned
    /\ made.ltensor = OneField
    /\ made.trial \in TrialSet

\* C22: kernel of scqedhf returns after at most max_cycle cycles, leaves the
\* loop at the end of the first cycle with scf_conv true, runs no cycle and
\* returns scf_conv false where max_cycle <= 0, and where check_convergence
\* is not callable sets scf_conv in a cycle only if the energy change is
\* below conv_tol and the gradient norm below conv_tol_grad, which is
\* sqrt(conv_tol) unless given
C22_ScfTerminates ==
    /\ <>(scqedhf.stage \in {"returned", "raised"})
    /\ [](scqedhf.stage \notin {"idle", "called", "raised"} =>
            /\ scqedhf.cycles <= (IF scqedhf.max_cycle > 0 THEN scqedhf.max_cycle ELSE 0)
            /\ scqedhf.stage = "loop" => ~scqedhf.scf_conv
            /\ scqedhf.max_cycle <= 0 => (scqedhf.stage = "returned" /\ ~scqedhf.scf_conv)
            /\ ~scqedhf.conv_tol_grad_given /\ ~scqedhf.extra =>
                  scqedhf.conv_tol_grad * scqedhf.conv_tol_grad = scqedhf.conv_tol)
    /\ [][(scqedhf.stage = "loop" /\ ~scqedhf.callable /\ scqedhf'.scf_conv) =>
             /\ Abs(scqedhf'.e_tot - scqedhf'.last_hf_e) < scqedhf.conv_tol
             /\ scqedhf'.norm_gorb < scqedhf.conv_tol_grad
             /\ scqedhf'.stage = "after_loop"]_vars

\* converged in the second of two cycles by the test of the loop, with the
\* default conv_tol_grad
C22_Witness ==
    /\ scqedhf.stage = "returned"
    /\ ~scqedhf.callable
    /\ ~scqedhf.conv_tol_grad_given
    /\ ~scqedhf.extra
    /\ scqedhf.cycles = 2
    /\ scqedhf.scf_conv
    /\ scqedhf.e_tot = 10

\* C26: where check_convergence is not callable the extra cycle leaves
\* scf_conv true, whatever its energy change and gradient norm are, and the
\* extra cycle runs only where the loop ended with scf_conv true and
\* conv_check is set
C26_ExtraCycleKeepsConverged ==
    /\ []((scqedhf.stage = "returned" /\ scqedhf.extra /\ ~scqedhf.callable) =>
             scqedhf.scf_conv)
    /\ [][(scqedhf.stage # "idle" /\ scqedhf'.extra) =>
             /\ scqedhf.stage = "after_loop"
             /\ scqedhf.scf_conv
             /\ scqedhf.conv_check]_vars
    /\ [][(scqedhf.stage = "after_loop" /\ ~(scqedhf.scf_conv /\ scqedhf.conv_check)) =>
             scqedhf' = [scqedhf EXCEPT !.stage = "returned"]]_vars

\* an extra cycle that fails both of its tests and returns converged
C26_Witness ==
    /\ scqedhf.stage = "returned"
    /\ scqedhf.extra
    /\ ~scqedhf.callable
    /\ Abs(scqedhf.e_tot - scqedhf.last_hf_e) >= scqedhf.conv_tol
    /\ scqedhf.norm_gorb >= scqedhf.conv_tol_grad
    /\ scqedhf.scf_conv

\* the calls made after the last call of orthogonalization
RECURSIVE C23_SinceOrthogonalization(_)
C23_SinceOrthogonalization(seq) ==
    IF seq = <<>> \/ seq[Len(seq)][1] = "orthogonalization" THEN <<>>
    ELSE Append(C23_SinceOrthogonalization(SubSeq(seq, 1, Len(seq) - 1)), seq[Len(seq)])

C23_Propagations ==
    Cardinality({i \in 1..Len(C23_SinceOrthogonalization(calls)) :
                    C23_SinceOrthogonalization(calls)[i][1] = "propagate_walkers"})

\* C23: at every point of a run at most renorm_freq calls of
\* propagate_walkers have been made since the last orthogonalization
C23_PropagationsBetweenOrthogonalizations ==
    /\ C23_Propagations <= renorm_freq
    /\ C23_Propagations > 0 => CallCount("orthogonalization") > 0

\* renorm_freq propagations since an orthogonalization inside the loop
C23_Witness ==
    /\ renorm_freq = 2
    /\ C23_Propagations = 2
    /\ CallCount("orthogonalization") >= 2
    /\ pc = "weight_control"

\* C24: whenever property_stack reduces, the accumulated weight it divides
\* by is not zero and the resulting eshift is a finite number
C24_ReductionIsFinite ==
    last_reduction.step >= 0 =>
        /\ last_reduction.accumulated[IndexOf("weights")] # Zero
        /\ IsFinite(last_reduction.eshift)
        /\ IsFinite(eshift)

\* C25: the module-level kernel(mc) makes the calls the method kernel makes,
\* with the same steps, and returns the same time_list and energy_list
C25_UniversalKernelIsKernel ==
    (pc = "done" /\ universal.stage \in {"returned", "raised"}) =>
        /\ universal.stage = "returned"
        /\ universal.calls = calls
        /\ universal.time_list = time_list
        /\ universal.energy_list = energy_list

\* C27: a call of scf with max_cycle <= 0 and mo_coeff set leaves converged,
\* mo_energy, mo_coeff and mo_occ as they were at the call; otherwise scf
\* assigns what kernel returns
C27_ScfFrame ==
    (scqedhf.stage = "returned" /\ ~scqedhf.updates) =>
        Orbitals(scqedhf) = scqedhf.entry

\* the columns of the maximal run of eigenvalues with successive gaps below
\* the threshold that holds column i
C28_RunOf(evals, thresh, i) ==
    {j \in DOMAIN evals :
        \A k \in (IF i < j THEN i ELSE j)..((IF i < j THEN j ELSE i) - 1) :
            Abs(evals[k + 1] - evals[k]) < thresh}

\* C28: on return every column of a run of two or more eigenvalues is a
\* combination of exactly the columns of its run, and every other column is
\* as it was passed
C28_EveryRunResolved ==
    scqedhf.stage = "returned" =>
        \A i \in 1..scqedhf.nao :
            scqedhf.mo2dipole[i] = C28_RunOf(scqedhf.evals, scqedhf.thresh, i)

\* C29: in every object constructed, uhf implies use_so, ncomponents is 2
\* exactly when uhf or use_so holds, and spin_fac is 1 / ncomponents
C29_SpinSettings ==
    \A i \in 1..Len(qmcs) :
        /\ qmcs[i].uhf => qmcs[i].use_so
        /\ qmcs[i].ncomponents = (IF qmcs[i].uhf \/ qmcs[i].use_so THEN 2 ELSE 1)
        /\ RMul[qmcs[i].spin_fac, <<qmcs[i].ncomponents, 1>>] = One

\* the walker options an object is to have: the defaults of the module with
\* what its own constructor was given
C30_OwnOptions(given) ==
    WalkerOptionsSet(default_walker_options, given.walker_options, given.num_walkers)

\* C30: the defaults of the module stay as they are, and the walker options
\* of every object are those of its own construction
C30_OptionsPerObject ==
    /\ gwalker = default_walker_options
    /\ \A i \in 1..Len(qmcs) :
          /\ Deref(qmcs[i].walker_options, gwalker) = C30_OwnOptions(qmcs[i].given)
          /\ qmcs[i].nwalkers = C30_OwnOptions(qmcs[i].given).nwalkers

====
